---------------------------- MODULE Spec2Model ----------------------------
(***************************************************************************)
(* A state-machine model of src/mcp-confluence-datacenter.py: the tools    *)
(* add_restrictions, remove_restrictions and sync_user_directory, the      *)
(* identity resolvers they call, and the process-wide HTTP client.         *)
(*                                                                         *)
(* One tool call runs at a time.  An action is the code of a handler from  *)
(* one await to the next: it issues the awaited request, takes the         *)
(* backend's answer from a small set of outcomes, and runs the code that   *)
(* follows up to the next await or to the return.  Python strings are TLA+ *)
(* strings; str methods (in, lower, slicing, join, replace, re.search) are *)
(* operators that compute what the method computes.                        *)
(***************************************************************************)
EXTENDS Integers, Sequences, FiniteSets, TLC

(***************************************************************************)
(* Bounds of the model.                                                    *)
(***************************************************************************)
\* The largest number of principals one add_restrictions call names, summed
\* over its four lists.
MaxPrincipals == 2

\* The tool calls that run side by side.
MaxTasks == 2

(***************************************************************************)
(* Python values.                                                          *)
(***************************************************************************)
\* Python's None, where a str is expected.
None == "<None>"

\* bool(x) of an Optional[str]: None and "" are falsy.
Truthy(x) == x # None /\ x # ""

\* a or b, on Optional[str].
Or(a, b) == IF Truthy(a) THEN a ELSE b

Min(a, b) == IF a <= b THEN a ELSE b

SeqsUpTo(S, n) == UNION {[1..k -> S] : k \in 0..n}

\* pat in s
Contains(pat, s) ==
    \E i \in 1..(Len(s) - Len(pat) + 1) : SubSeq(s, i, i + Len(pat) - 1) = pat

\* s.startswith(pat, i - 1), i counted from 1
StartsAt(s, i, pat) ==
    /\ i + Len(pat) - 1 <= Len(s)
    /\ SubSeq(s, i, i + Len(pat) - 1) = pat

\* s[:n]
Prefix(s, n) == SubSeq(s, 1, Min(n, Len(s)))

\* s[i] as a one-character string, i counted from 1
CharAt(s, i) == SubSeq(s, i, i)

UpperAlphabet == "ABCDEFGHIJKLMNOPQRSTUVWXYZ"

LowerAlphabet == "abcdefghijklmnopqrstuvwxyz"

\* The lower-case letter of each upper-case letter.
LowerOf ==
    [c \in {CharAt(UpperAlphabet, i) : i \in 1..26} |->
        CharAt(LowerAlphabet, CHOOSE i \in 1..26 : CharAt(UpperAlphabet, i) = c)]

LowerChar(c) == IF c \in DOMAIN LowerOf THEN LowerOf[c] ELSE c

RECURSIVE LowerRange(_, _, _)
\* s[a..b] in lower case, by halves
LowerRange(s, a, b) ==
    IF a > b THEN ""
    ELSE IF a = b THEN LowerChar(CharAt(s, a))
    ELSE LowerRange(s, a, (a + b) \div 2) \o LowerRange(s, (a + b) \div 2 + 1, b)

\* s.lower()
Lower(s) == LowerRange(s, 1, Len(s))

RECURSIVE JoinFrom(_, _, _)
JoinFrom(sep, parts, i) ==
    IF i > Len(parts) THEN ""
    ELSE IF i = Len(parts) THEN parts[i]
    ELSE parts[i] \o sep \o JoinFrom(sep, parts, i + 1)

\* sep.join(parts)
Join(sep, parts) == JoinFrom(sep, parts, 1)

RECURSIVE Repeat(_, _)
Repeat(s, n) == IF n = 0 THEN "" ELSE s \o Repeat(s, n - 1)

RECURSIVE ReplaceFrom(_, _, _, _)
ReplaceFrom(s, old, new, i) ==
    IF i > Len(s) THEN ""
    ELSE IF StartsAt(s, i, old) THEN new \o ReplaceFrom(s, old, new, i + Len(old))
    ELSE CharAt(s, i) \o ReplaceFrom(s, old, new, i + 1)

\* s.replace(old, new), old not empty
Replace(s, old, new) == ReplaceFrom(s, old, new, 1)

RECURSIVE RStrip(_, _)
\* s.rstrip(c)
RStrip(s, c) ==
    IF Len(s) > 0 /\ CharAt(s, Len(s)) = c THEN RStrip(SubSeq(s, 1, Len(s) - 1), c) ELSE s

(***************************************************************************)
(* HTTP: requests, responses, exceptions.                                  *)
(***************************************************************************)
NoPairs == <<>>

NoCheckHeader == <<"X-Atlassian-Token", "no-check">>

\* One call of client.get / client.post / client.delete.
Request(client, method, url) ==
    [client |-> client, method |-> method, url |-> url, params |-> NoPairs,
     content |-> "", json |-> NoPairs, data |-> NoPairs, headers |-> NoPairs,
     cookies |-> {}]

NoJson == [valid |-> FALSE]

Json(obj) == [valid |-> TRUE, obj |-> obj]

\* A response that arrived: its status, its text and what response.json() gives.
Response(status, text, json) ==
    [exc |-> "", status |-> status, text |-> text, json |-> json, set_cookie |-> {}]

\* The request raised instead of returning a response.
TransportError(exc, msg) ==
    [exc |-> exc, status |-> 0, text |-> msg, json |-> NoJson, set_cookie |-> {}]

Timeout == TransportError("TimeoutException", "")

ConnectError == TransportError("ConnectError", "All connection attempts failed")

\* response.raise_for_status() raises HTTPStatusError
RaisesForStatus(resp) == resp.status \notin 200..299

\* Exceptions, as _handle_api_error reads them.
Exception(type, status, text, msg) ==
    [type |-> type, status |-> status, text |-> text, msg |-> msg]

HTTPStatusError(resp) == Exception("HTTPStatusError", resp.status, resp.text, "status")

\* The exception a failed request raises.
RaisedBy(resp) == Exception(resp.exc, 0, "", resp.text)

_handle_api_error(e) ==
    IF e.type = "HTTPStatusError" THEN
        IF e.status = 400 THEN "Error: Bad request - " \o e.text
        ELSE IF e.status = 401
            THEN "Error: Authentication failed. Check your API token and email."
        ELSE IF e.status = 403
            THEN "Error: Permission denied. You don't have access to perform this operation."
        ELSE IF e.status = 404
            THEN "Error: Resource not found. Check the space key or page ID."
        ELSE IF e.status = 429
            THEN "Error: Rate limit exceeded. Please wait before making more requests."
        ELSE "Error: API request failed with status " \o ToString(e.status) \o ": " \o e.text
    ELSE IF e.type = "TimeoutException" THEN "Error: Request timed out. Please try again."
    ELSE IF e.type = "ValueError" THEN "Error: " \o e.msg
    ELSE "Error: Unexpected error occurred: " \o e.type \o " - " \o e.msg

\* A slip in the error outcome: the text is repeated as a message.
ErrorResultWithMessage(msg) == [success |-> FALSE, error |-> msg, message |-> msg]

\* The outcome of a handler that returns {"success": False, "error": msg}.
ErrorResult(msg) == [success |-> FALSE, error |-> msg]

NoResult == [pending |-> TRUE]

\* A slip in the outer except clause: "except httpx.HTTPStatusError as e".
CaughtStatusErrorsOnly(e) ==
    IF e.type = "HTTPStatusError" THEN ErrorResult(_handle_api_error(e))
    ELSE [escaped |-> e.type]

\* The outer "except Exception as e" of a handler on the shared client.
Caught(e) == ErrorResult(_handle_api_error(e))

\* What a piece of code that may raise comes to: the exception or the value.
Raise(type, msg) == [raised |-> TRUE, exc |-> Exception(type, 0, "", msg)]

Value(v) == [raised |-> FALSE, value |-> v]

\* JSON values that are not what the handler expects where it finds them.
JsonNull == [null |-> TRUE]

JsonArray(items) == [array |-> items]

JsonString(str) == [string |-> str]

IsNull(v) == "null" \in DOMAIN v

IsArray(v) == "array" \in DOMAIN v

IsString(v) == "string" \in DOMAIN v

\* {} as a default of dict.get
EmptyDict == <<>>

\* d.get(key, default)
Get(d, key, default) == IF key \in DOMAIN d THEN d[key] ELSE default

\* response.raise_for_status() and response.json(): the exception or the data
JsonOf(resp) ==
    IF resp.exc # "" THEN [raised |-> TRUE, exc |-> RaisedBy(resp)]
    ELSE IF RaisesForStatus(resp) THEN [raised |-> TRUE, exc |-> HTTPStatusError(resp)]
    ELSE IF ~resp.json.valid
    THEN Raise("ValueError", "Expecting value: line 1 column 1 (char 0)")
    ELSE Value(resp.json.obj)

\* A list local that is not assigned yet (no list of str holds None).
Unset == <<None>>

(***************************************************************************)
(* State.                                                                  *)
(***************************************************************************)
VARIABLES
    env,                  \* CONFLUENCE_URL, CONFLUENCE_LOGIN, ... (module globals)
    http_client,          \* _http_client, the process-wide client
    tool,                 \* the handler that is running
    pc,                   \* where it is: "idle", the await it is at, or "done"
    params,               \* its input
    page_id,
    page_title,
    user_account_ids,
    group_ids,
    idx,                  \* position of the loop the handler is in
    form_body,
    operations_to_remove,
    removed_operations,
    errors,
    atl_token,
    session,              \* the client sync_user_directory opens
    log,                  \* the requests of this call, each with its answer
    result,               \* what the handler returned
    prev,                 \* what the previous remove_restrictions call did
    tasks,                \* the tool calls in progress side by side on the event loop
    jars,                 \* the cookies each open client holds
    store                 \* the grants the backend holds

frame == <<tool, pc, params, log, result>>

pageLocals == <<page_id, page_title>>

addLocals == <<user_account_ids, group_ids, form_body>>

removeLocals == <<operations_to_remove, removed_operations, errors>>

syncLocals == <<atl_token, session>>

vars ==
    <<env, http_client, tool, pc, params, page_id, page_title, user_account_ids,
      group_ids, idx, form_body, operations_to_remove, removed_operations, errors,
      atl_token, session, log, result, prev, tasks, jars, store>>

\* The calls that run side by side.
taskVars == <<tasks, jars>>

NoClient == [client |-> "none"]

NoSession == [client |-> "none", open |-> FALSE, base_url |-> "", cookies |-> {}]

NoPrev == [tool |-> "none"]

\* The backend holds no grant.
NoGrants == {}


(***************************************************************************)
(* The inputs and the backend's answers the model draws from.              *)
(***************************************************************************)
\* os.getenv(...) at import; CONFLUENCE_URL has its trailing "/" stripped.
Environments ==
    [CONFLUENCE_URL : {RStrip(u, "/") : u \in {"", "https://wiki.example/"}},
     CONFLUENCE_API_TOKEN : {"", "secret"},
     CONFLUENCE_LOGIN : {"admin"},
     CONFLUENCE_LOGIN_PASSWORD : {"pw"},
     CONFLUENCE_DIRECTORY_ID : {"10000"}]

PageIds == {"12345"}

\* Titles a caller names a page by.
CallerTitles == {"Private Roadmap", "Team Notes"}

\* Titles the backend holds for a page ID.
BackendTitles == {"Shared Drafts", "Architecture", "private notes"}

SpaceKeys == {"DOCS"}

UserIds == {"u1", "u2"}

UserIdentifiers == {"alice", "bob"}

GroupIds == {"g1"}

GroupNames == {"engineering", ""}

\* The account the backend's user directory holds for an identifier.
AccountOf(identifier) == IF identifier = "alice" THEN "u1" ELSE "u3"

Operations == {"read", "update"}

\* AddRestrictionInput.  A list field left out (None) and an empty list are one
\* value here: the handler reads each list only through "x or []" and "if x:".
AddRestrictionInput ==
    {p \in [page_id : {None} \cup PageIds,
            page_title : {None} \cup CallerTitles,
            space_key : {None} \cup SpaceKeys,
            operation : Operations,
            user_account_ids : SeqsUpTo(UserIds, MaxPrincipals),
            user_identifiers : SeqsUpTo(UserIdentifiers, MaxPrincipals),
            group_ids : SeqsUpTo(GroupIds, MaxPrincipals),
            group_names : SeqsUpTo(GroupNames, MaxPrincipals)] :
        Len(p.user_account_ids) + Len(p.user_identifiers)
            + Len(p.group_ids) + Len(p.group_names) <= MaxPrincipals}

\* Answers to GET /rest/api/content?spaceKey=..&title=..
TitleSearchResponses ==
    {Response(200, "{results}", Json([results |-> <<[id |-> "12345"]>>])),
     Response(200, "{results}", Json([results |-> <<>>])),
     Response(200, "<html>", NoJson),
     Response(500, "Internal Server Error", NoJson),
     Timeout}

\* Answers to GET /rest/api/content/{id}
PageResponses ==
    {Response(200, "{page}", Json([id |-> "12345", title |-> t])) : t \in BackendTitles}
    \cup {Response(200, "{page}", Json([id |-> "12345", title |-> None])),
          Response(200, "{page}", Json([id |-> "12345"])),
          Response(200, "<html>", NoJson),
          Response(404, "Not Found", NoJson),
          Timeout}

\* Answers to GET /rest/api/user?username=..
UserLookupResponses(identifier) ==
    {Response(200, "{user}", Json([accountId |-> AccountOf(identifier)])),
     Response(200, "{user}", Json([username |-> identifier])),
     Response(404, "Not Found", NoJson),
     Timeout}

\* Answers to GET /rest/api/search/user?query=..
UserSearchResponses(identifier) ==
    {Response(200, "{results}", Json([results |-> <<[accountId |-> AccountOf(identifier)]>>])),
     Response(200, "{results}", Json([results |-> <<>>])),
     Response(500, "Internal Server Error", NoJson),
     Timeout}

LongErrorPage == Repeat("denied ", 30)

\* Answers to POST /pages/setcontentpermissions.action
PermissionResponses ==
    {Response(200, "true", NoJson),
     Response(200, "{\"success\": TRUE}", NoJson),
     Response(200, "false", NoJson),
     Response(200, "", NoJson),
     Response(200, LongErrorPage, NoJson),
     Response(403, "it is true that access is denied", NoJson),
     Response(500, "Internal Server Error", NoJson),
     Timeout,
     ConnectError}

(***************************************************************************)
(* get_http_client                                                         *)
(***************************************************************************)
MissingEnvironment ==
    "Missing required environment variables: CONFLUENCE_URL, CONFLUENCE_API_TOKEN"

\* httpx.AsyncClient(base_url=..., headers=...); serial tells one constructed
\* object from the next (1 is the first the process constructs).
SharedClient ==
    [client |-> "shared", base_url |-> env.CONFLUENCE_URL,
     authorization |-> "Bearer " \o env.CONFLUENCE_API_TOKEN, serial |-> 1]

\* A slip in get_http_client: the test of _http_client is left out.
get_http_client_rebuilding ==
    IF env.CONFLUENCE_URL = "" \/ env.CONFLUENCE_API_TOKEN = ""
    THEN [raised |-> TRUE, client |-> http_client]
    ELSE [raised |-> FALSE,
          client |-> [SharedClient EXCEPT
                         !.serial = IF http_client = NoClient THEN 1
                                    ELSE http_client.serial + 1]]

\* A slip in get_http_client: the environment is not tested.
get_http_client_unchecked ==
    IF http_client # NoClient THEN [raised |-> FALSE, client |-> http_client]
    ELSE [raised |-> FALSE, client |-> SharedClient]

\* What get_http_client() does to _http_client, and whether it raises ValueError.
get_http_client ==
    IF http_client # NoClient THEN [raised |-> FALSE, client |-> http_client]
    ELSE IF env.CONFLUENCE_URL = "" \/ env.CONFLUENCE_API_TOKEN = ""
        THEN [raised |-> TRUE, client |-> http_client]
    ELSE [raised |-> FALSE, client |-> SharedClient]

(***************************************************************************)
(* Identity resolvers.                                                     *)
(***************************************************************************)
TitleSearchRequest(space_key, title) ==
    [Request("shared", "GET", "/rest/api/content") EXCEPT
        !.params = <<<<"spaceKey", space_key>>, <<"title", title>>,
                     <<"type", "page">>, <<"limit", "1">>>>]

\* _find_page_by_title: the page ID, or None.
_find_page_by_title(resp) ==
    IF resp.exc # "" THEN None
    ELSE IF RaisesForStatus(resp) THEN None
    ELSE IF ~resp.json.valid THEN None
    ELSE LET results == IF "results" \in DOMAIN resp.json.obj
                        THEN resp.json.obj.results ELSE <<>>
         IN IF results # <<>>
            THEN (IF "id" \in DOMAIN results[1] THEN results[1].id ELSE None)
            ELSE None

PageRequest(id) == Request("shared", "GET", "/rest/api/content/" \o id)

\* The try block at "If we only have page_id, fetch the page title".
FetchPageTitle(resp) ==
    IF resp.exc # "" THEN ""
    ELSE IF RaisesForStatus(resp) THEN ""
    ELSE IF ~resp.json.valid THEN ""
    ELSE IF "title" \in DOMAIN resp.json.obj THEN resp.json.obj.title ELSE ""

\* A slip in the resolution: the name is looked up in a directory of groups.
_find_group_by_name_directory(group_name) ==
    IF group_name = "engineering" THEN "g1" ELSE group_name

\* _find_group_by_name
_find_group_by_name(group_name) == group_name

UserLookupRequest(identifier) ==
    [Request("shared", "GET", "/rest/api/user") EXCEPT
        !.params = <<<<"username", identifier>>>>]

UserSearchRequest(identifier) ==
    [Request("shared", "GET", "/rest/api/search/user") EXCEPT
        !.params = <<<<"query", identifier>>>>]

\* _find_user_by_identifier after its first request: "search" when the second
\* request is due, otherwise the value returned.
UserLookupResult(resp) ==
    IF resp.exc # "" THEN None
    ELSE IF resp.status = 200 THEN
        IF ~resp.json.valid THEN None
        ELSE IF "accountId" \in DOMAIN resp.json.obj THEN resp.json.obj.accountId
        ELSE None
    ELSE "search"

\* _find_user_by_identifier after its second request.
UserSearchResult(resp) ==
    IF resp.exc # "" THEN None
    ELSE IF resp.status = 200 THEN
        IF ~resp.json.valid THEN None
        ELSE LET results == IF "results" \in DOMAIN resp.json.obj
                            THEN resp.json.obj.results ELSE <<>>
             IN IF results # <<>>
                THEN (IF "accountId" \in DOMAIN results[1]
                      THEN results[1].accountId ELSE None)
                ELSE None
    ELSE None


(***************************************************************************)
(* Steps shared by the handlers.                                           *)
(***************************************************************************)
\* return json.dumps(r)
Return(r) == pc' = "done" /\ result' = r

\* The handler goes on to the await named l.
Goto(l) == pc' = l /\ UNCHANGED result

\* await client.<method>(...) answered by resp
Exchange(req, resp) == log' = Append(log, [req |-> req, resp |-> resp])

ConfigError == Caught(Exception("ValueError", 0, "", MissingEnvironment))

BothPageForms ==
    ErrorResult("Cannot specify both page_id and page_title. Please use only one.")

NoPageForm == ErrorResult("Must specify either page_id or page_title.")

SpaceKeyRequired == ErrorResult("space_key is required when using page_title")

\* A slip in the message: the title and the space are left out.
PageNotFoundUnnamed(p) == ErrorResult("Page not found")

PageNotFound(p) ==
    ErrorResult("Page with title '" \o p.page_title \o "' not found in space '"
                \o p.space_key \o "'")

\* A slip in the validation: the space key is not asked for.
ValidatePageAnySpace(p) ==
    IF Truthy(p.page_id) /\ Truthy(p.page_title) THEN [ret |-> TRUE, result |-> BothPageForms]
    ELSE IF ~Truthy(p.page_id) /\ ~Truthy(p.page_title) THEN [ret |-> TRUE, result |-> NoPageForm]
    ELSE IF Truthy(p.page_title) THEN [ret |-> FALSE, next |-> "find_page"]
    ELSE [ret |-> FALSE, next |-> "get_title"]

\* A slip in the choice of the page lookup: the title is fetched by ID in both
\* forms.
ValidatePageFetchingTitle(p) ==
    IF Truthy(p.page_id) /\ Truthy(p.page_title) THEN [ret |-> TRUE, result |-> BothPageForms]
    ELSE IF ~Truthy(p.page_id) /\ ~Truthy(p.page_title) THEN [ret |-> TRUE, result |-> NoPageForm]
    ELSE IF Truthy(p.page_title) /\ ~Truthy(p.space_key)
    THEN [ret |-> TRUE, result |-> SpaceKeyRequired]
    ELSE [ret |-> FALSE, next |-> "get_title"]

\* "Validate page parameters" and the choice of the page lookup, the same code
\* in add_restrictions and remove_restrictions: the outcome returned, or the
\* await the handler goes to.
ValidatePage(p) ==
    IF Truthy(p.page_id) /\ Truthy(p.page_title) THEN [ret |-> TRUE, result |-> BothPageForms]
    ELSE IF ~Truthy(p.page_id) /\ ~Truthy(p.page_title) THEN [ret |-> TRUE, result |-> NoPageForm]
    ELSE IF Truthy(p.page_title) THEN
        IF ~Truthy(p.space_key) THEN [ret |-> TRUE, result |-> SpaceKeyRequired]
        ELSE [ret |-> FALSE, next |-> "find_page"]
    ELSE [ret |-> FALSE, next |-> "get_title"]

\* The handler's code up to its first await.
Enter(t, p) ==
    /\ pc = "idle"
    /\ tool' = t
    /\ params' = p
    /\ http_client' = get_http_client.client
    /\ IF get_http_client.raised
       THEN Return(ConfigError) /\ UNCHANGED pageLocals
       ELSE LET v == ValidatePage(p)
            IN IF v.ret
               THEN Return(v.result) /\ UNCHANGED pageLocals
               ELSE /\ page_id' = p.page_id
                    /\ page_title' = p.page_title
                    /\ Goto(v.next)

(***************************************************************************)
(* add_restrictions                                                        *)
(***************************************************************************)
\* "Resolve group names to IDs": the IDs appended, and the name that stopped
\* the loop if one did.
ResolveGroups(names) ==
    LET bad == {i \in 1..Len(names) : ~Truthy(_find_group_by_name(names[i]))}
        stop == IF bad = {} THEN Len(names) + 1
                ELSE CHOOSE i \in bad : \A j \in bad : i <= j
    IN [failed |-> bad # {},
        ids |-> [i \in 1..(stop - 1) |-> _find_group_by_name(names[i])],
        name |-> IF bad = {} THEN "" ELSE names[stop]]

\* A slip in the classification: the title is compared without regard to case.
is_private_or_shared_any_case(title) ==
    Contains("private", Lower(title)) \/ Contains("shared", Lower(title))

is_private_or_shared(title) == Contains("Private", title) \/ Contains("Shared", title)

\* The fields one principal adds to form_data; kind is "User" or "Group".
PrincipalFields(kind, operation, sensitive, id) ==
    LET view == "viewPermissions" \o kind \o "List=" \o id
        edit == "editPermissions" \o kind \o "List=" \o id
    IN IF operation = "read" THEN <<view>>
       ELSE IF operation = "update" THEN (IF sensitive THEN <<view, edit>> ELSE <<edit>>)
       ELSE <<>>

RECURSIVE PermissionFields(_, _, _, _, _)
\* One of the loops "Add user permissions" / "Add group permissions", from i on.
PermissionFields(kind, operation, sensitive, ids, i) ==
    IF i > Len(ids) THEN <<>>
    ELSE PrincipalFields(kind, operation, sensitive, ids[i])
         \o PermissionFields(kind, operation, sensitive, ids, i + 1)

\* A slip in the order of the two loops: the groups come first.
FormDataGroupsFirst(operation, sensitive, uids, gids, pid) ==
    PermissionFields("Group", operation, sensitive, gids, 1)
    \o PermissionFields("User", operation, sensitive, uids, 1)
    \o <<"contentId=" \o pid>>

\* form_data
FormData(operation, sensitive, uids, gids, pid) ==
    PermissionFields("User", operation, sensitive, uids, 1)
    \o PermissionFields("Group", operation, sensitive, gids, 1)
    \o <<"contentId=" \o pid>>

FormBody(operation, sensitive, uids, gids, pid) ==
    Join("&", FormData(operation, sensitive, uids, gids, pid))

NoPrincipals == ErrorResult("At least one user or group must be specified")

\* A slip in the check of the merged lists: it is skipped.
NoPrincipalsGivenSkipped(uids, gids) == FALSE

\* not user_account_ids and not group_ids
NoPrincipalsGiven(uids, gids) == uids = <<>> /\ gids = <<>>

UserNotFound(identifier) == ErrorResult("User '" \o identifier \o "' not found")

GroupNotFound(group_name) == ErrorResult("Group '" \o group_name \o "' not found")

NoneNotIterable ==
    Caught(Exception("TypeError", 0, "", "argument of type 'NoneType' is not iterable"))

\* From "Collect all group IDs" to the await of the permissions POST, with the
\* users resolved to uids and the page to (pid, title).
AddPrepare(pid, title, uids) ==
    LET g == ResolveGroups(params.group_names)
        gids == params.group_ids \o g.ids
    IN /\ user_account_ids' = uids
       /\ group_ids' = gids
       /\ idx' = 0
       /\ IF g.failed THEN Return(GroupNotFound(g.name)) /\ UNCHANGED form_body
          ELSE IF NoPrincipalsGiven(uids, gids)
          THEN Return(NoPrincipals) /\ UNCHANGED form_body
          ELSE IF title = None THEN Return(NoneNotIterable) /\ UNCHANGED form_body
          ELSE /\ form_body' = FormBody(params.operation, is_private_or_shared(title),
                                        uids, gids, pid)
               /\ Goto("post")

\* The loop "Resolve user identifiers to account IDs" at identifier i, with
\* uids collected so far.
AddResolveFrom(pid, title, uids, i) ==
    IF i <= Len(params.user_identifiers)
    THEN /\ user_account_ids' = uids
         /\ idx' = i
         /\ Goto("find_user")
         /\ UNCHANGED <<group_ids, form_body>>
    ELSE AddPrepare(pid, title, uids)

\* From "Collect all user account IDs" on.
AddCollect(pid, title) == AddResolveFrom(pid, title, params.user_account_ids, 1)

\* add_restrictions(params), up to its first await
add_restrictions(p) ==
    /\ Enter("add_restrictions", p)
    /\ UNCHANGED <<taskVars, store, env, prev, log, idx, addLocals, removeLocals, syncLocals>>

\* page_id = await _find_page_by_title(...)
AddFindPage(resp) ==
    /\ tool = "add_restrictions" /\ pc = "find_page"
    /\ Exchange(TitleSearchRequest(params.space_key, params.page_title), resp)
    /\ LET found == _find_page_by_title(resp)
       IN /\ page_id' = found
          /\ IF ~Truthy(found)
             THEN Return(PageNotFound(params)) /\ UNCHANGED <<idx, addLocals>>
             ELSE AddCollect(found, page_title)
    /\ UNCHANGED <<taskVars, store, env, http_client, tool, params, page_title, prev, removeLocals, syncLocals>>

\* response = await client.get(f"/rest/api/content/{page_id}")
AddGetTitle(resp) ==
    /\ tool = "add_restrictions" /\ pc = "get_title"
    /\ Exchange(PageRequest(page_id), resp)
    /\ page_title' = FetchPageTitle(resp)
    /\ AddCollect(page_id, FetchPageTitle(resp))
    /\ UNCHANGED <<taskVars, store, env, http_client, tool, params, page_id, prev, removeLocals, syncLocals>>

\* A slip in the loop over the identifiers: one that does not resolve is passed
\* over and the loop goes on.
AddFindUserSkipping(resp) ==
    /\ Exchange(UserLookupRequest(params.user_identifiers[idx]), resp)
    /\ LET account_id == UserLookupResult(resp)
       IN IF account_id = "search"
          THEN Goto("search_user") /\ UNCHANGED <<idx, addLocals>>
          ELSE IF Truthy(account_id)
          THEN AddResolveFrom(page_id, page_title, Append(user_account_ids, account_id), idx + 1)
          ELSE AddResolveFrom(page_id, page_title, user_account_ids, idx + 1)
    /\ UNCHANGED <<taskVars, store, env, http_client, tool, params, pageLocals, prev, removeLocals, syncLocals>>

\* account_id = await _find_user_by_identifier(...): its first request
AddFindUserAnswered(resp) ==
    /\ Exchange(UserLookupRequest(params.user_identifiers[idx]), resp)
    /\ LET account_id == UserLookupResult(resp)
       IN IF account_id = "search"
          THEN Goto("search_user") /\ UNCHANGED <<idx, addLocals>>
          ELSE IF Truthy(account_id)
          THEN AddResolveFrom(page_id, page_title, Append(user_account_ids, account_id), idx + 1)
          ELSE /\ Return(UserNotFound(params.user_identifiers[idx]))
               /\ UNCHANGED <<idx, addLocals>>
    /\ UNCHANGED <<taskVars, store, env, http_client, tool, params, pageLocals, prev, removeLocals, syncLocals>>

\* account_id = await _find_user_by_identifier(...): its second request
AddSearchUserAnswered(resp) ==
    /\ Exchange(UserSearchRequest(params.user_identifiers[idx]), resp)
    /\ LET account_id == UserSearchResult(resp)
       IN IF Truthy(account_id)
          THEN AddResolveFrom(page_id, page_title, Append(user_account_ids, account_id), idx + 1)
          ELSE /\ Return(UserNotFound(params.user_identifiers[idx]))
               /\ UNCHANGED <<idx, addLocals>>
    /\ UNCHANGED <<taskVars, store, env, http_client, tool, params, pageLocals, prev, removeLocals, syncLocals>>

AddFindUser ==
    /\ tool = "add_restrictions" /\ pc = "find_user"
    /\ \E resp \in UserLookupResponses(params.user_identifiers[idx]) :
          AddFindUserAnswered(resp)

AddSearchUser ==
    /\ tool = "add_restrictions" /\ pc = "search_user"
    /\ \E resp \in UserSearchResponses(params.user_identifiers[idx]) :
          AddSearchUserAnswered(resp)

PermissionsRequest(body) ==
    [Request("shared", "POST", "/pages/setcontentpermissions.action") EXCEPT
        !.content = body,
        !.headers = <<<<"Content-Type", "application/x-www-form-urlencoded; charset=UTF-8">>,
                      NoCheckHeader>>]

\* response.text[:200] keeps this many characters
SnippetLength == 200

\* A slip in the success check: the body is not lowered before the comparison.
SubmissionCaseSensitive(resp, uids, gids) ==
    IF resp.exc # ""
    THEN [users_added |-> 0, groups_added |-> 0,
          errors |-> <<_handle_api_error(RaisedBy(resp))>>]
    ELSE IF RaisesForStatus(resp)
    THEN [users_added |-> 0, groups_added |-> 0,
          errors |-> <<_handle_api_error(HTTPStatusError(resp))>>]
    ELSE IF Contains("true", resp.text)
    THEN [users_added |-> Len(uids), groups_added |-> Len(gids), errors |-> <<>>]
    ELSE [users_added |-> 0, groups_added |-> 0,
          errors |-> <<"API returned unexpected response: "
                       \o Prefix(resp.text, SnippetLength)>>]

\* A slip in the counts: every principal is counted as a user.
SubmissionCountingAll(resp, uids, gids) ==
    IF resp.exc # ""
    THEN [users_added |-> 0, groups_added |-> 0,
          errors |-> <<_handle_api_error(RaisedBy(resp))>>]
    ELSE IF RaisesForStatus(resp)
    THEN [users_added |-> 0, groups_added |-> 0,
          errors |-> <<_handle_api_error(HTTPStatusError(resp))>>]
    ELSE IF Contains("true", Lower(resp.text))
    THEN [users_added |-> Len(uids) + Len(gids), groups_added |-> 0, errors |-> <<>>]
    ELSE [users_added |-> 0, groups_added |-> 0,
          errors |-> <<"API returned unexpected response: "
                       \o Prefix(resp.text, SnippetLength)>>]

\* The inner try block around the permissions POST: what it leaves in
\* users_added, groups_added and errors.
Submission(resp, uids, gids) ==
    IF resp.exc # ""
    THEN [users_added |-> 0, groups_added |-> 0,
          errors |-> <<_handle_api_error(RaisedBy(resp))>>]
    ELSE IF RaisesForStatus(resp)
    THEN [users_added |-> 0, groups_added |-> 0,
          errors |-> <<_handle_api_error(HTTPStatusError(resp))>>]
    ELSE IF Contains("true", Lower(resp.text))
    THEN [users_added |-> Len(uids), groups_added |-> Len(gids), errors |-> <<>>]
    ELSE [users_added |-> 0, groups_added |-> 0,
          errors |-> <<"API returned unexpected response: "
                       \o Prefix(resp.text, SnippetLength)>>]

\* result = {...} of add_restrictions
AddResult(pid, operation, s) ==
    LET added == s.users_added > 0 \/ s.groups_added > 0
        base == [success |-> added, page_id |-> pid, operation |-> operation,
                 users_added |-> s.users_added, groups_added |-> s.groups_added,
                 message |-> IF added
                             THEN "Added " \o operation \o " restrictions: "
                                  \o ToString(s.users_added) \o " users, "
                                  \o ToString(s.groups_added) \o " groups"
                             ELSE "No restrictions were added"]
    IN IF s.errors # <<>> THEN base @@ [warnings |-> s.errors] ELSE base

\* A slip around the POST: a request that raised is sent once more.
AddPostRetrying(resp) ==
    /\ tool = "add_restrictions" /\ pc = "post"
    /\ Exchange(PermissionsRequest(form_body), resp)
    /\ IF resp.exc # "" /\ Cardinality({i \in 1..Len(log) : log[i].req.method = "POST"}) = 0
       THEN UNCHANGED <<pc, result>>
       ELSE Return(AddResult(page_id, params.operation,
                             Submission(resp, user_account_ids, group_ids)))
    /\ UNCHANGED <<taskVars, env, http_client, tool, params, pageLocals, idx, addLocals, prev,
                   removeLocals, syncLocals>>

\* response = await client.post("/pages/setcontentpermissions.action", ...),
\* and the rest of the handler
AddPostAnswered(resp) ==
    /\ tool = "add_restrictions" /\ pc = "post"
    /\ Exchange(PermissionsRequest(form_body), resp)
    /\ Return(AddResult(page_id, params.operation,
                        Submission(resp, user_account_ids, group_ids)))
    /\ UNCHANGED <<taskVars, env, http_client, tool, params, pageLocals, idx, addLocals, prev,
                   removeLocals, syncLocals>>

\* The POST answered by a backend whose grants stay as they are.
AddPost(resp) == AddPostAnswered(resp) /\ UNCHANGED store


(***************************************************************************)
(* remove_restrictions                                                     *)
(***************************************************************************)
RemoveRestrictionInput ==
    [page_id : {None} \cup PageIds,
     page_title : {None} \cup CallerTitles,
     space_key : {None} \cup SpaceKeys,
     operation : {None} \cup Operations,
     remove_all : BOOLEAN]

\* Answers to DELETE /rest/api/content/{id}/restriction/byOperation/{op}
DeleteResponses ==
    {Response(204, "", NoJson),
     Response(404, "Not Found", NoJson),
     Response(200, "{}", NoJson),
     Response(403, "Forbidden", NoJson),
     Response(500, "Internal Server Error", NoJson),
     Timeout}

\* A slip in the choice: a named operation wins over remove_all.
OperationsToRemoveNamedFirst(p) ==
    IF p.operation # None THEN <<p.operation>> ELSE <<"read", "update">>

\* "Determine which operations to remove"
OperationsToRemove(p) ==
    IF p.remove_all \/ p.operation = None THEN <<"read", "update">>
    ELSE <<p.operation>>

DeleteRequest(pid, operation) ==
    Request("shared", "DELETE",
            "/rest/api/content/" \o pid \o "/restriction/byOperation/" \o operation)

RemoveFailed(operation, e) ==
    "Failed to remove " \o operation \o " restrictions: " \o _handle_api_error(e)

\* A slip in the loop body: only 204 counts as removed, 404 is a failure.
RemoveOneStrict(operation, resp, removed, errs) ==
    IF resp.exc # ""
    THEN [removed |-> removed, errors |-> Append(errs, RemoveFailed(operation, RaisedBy(resp)))]
    ELSE IF resp.status = 204
    THEN [removed |-> Append(removed, operation), errors |-> errs]
    ELSE IF RaisesForStatus(resp)
    THEN [removed |-> removed,
          errors |-> Append(errs, RemoveFailed(operation, HTTPStatusError(resp)))]
    ELSE [removed |-> Append(removed, operation), errors |-> errs]

\* A slip in the loop body: a request that raised anything but a status error
\* is passed over without an entry in errors.
RemoveOneSilent(operation, resp, removed, errs) ==
    IF resp.exc # "" THEN [removed |-> removed, errors |-> errs]
    ELSE IF resp.status \in {204, 404}
    THEN [removed |-> Append(removed, operation), errors |-> errs]
    ELSE IF RaisesForStatus(resp)
    THEN [removed |-> removed,
          errors |-> Append(errs, RemoveFailed(operation, HTTPStatusError(resp)))]
    ELSE [removed |-> Append(removed, operation), errors |-> errs]

\* One pass of the loop "for operation in operations_to_remove": the lists
\* removed_operations and errors after the DELETE was answered by resp.
RemoveOne(operation, resp, removed, errs) ==
    IF resp.exc # ""
    THEN [removed |-> removed, errors |-> Append(errs, RemoveFailed(operation, RaisedBy(resp)))]
    ELSE IF resp.status \in {204, 404}
    THEN [removed |-> Append(removed, operation), errors |-> errs]
    ELSE IF RaisesForStatus(resp)
    THEN (IF resp.status = 404
          THEN [removed |-> Append(removed, operation), errors |-> errs]
          ELSE [removed |-> removed,
                errors |-> Append(errs, RemoveFailed(operation, HTTPStatusError(resp)))])
    ELSE [removed |-> Append(removed, operation), errors |-> errs]

\* A slip in the success flag: it is true only when nothing failed.
RemoveResultAllOrNothing(pid, title, removed, errs) ==
    LET base == [success |-> errs = <<>>, page_id |-> pid, page_title |-> title,
                 removed_operations |-> removed,
                 message |-> IF removed # <<>>
                             THEN "Removed restrictions for: " \o Join(", ", removed)
                             ELSE "No restrictions were removed"]
    IN IF errs # <<>> THEN base @@ [warnings |-> errs] ELSE base

\* A slip in the result: the warnings are left out.
RemoveResultNoWarnings(pid, title, removed, errs) ==
    [success |-> Len(removed) > 0, page_id |-> pid, page_title |-> title,
     removed_operations |-> removed,
     message |-> IF removed # <<>>
                 THEN "Removed restrictions for: " \o Join(", ", removed)
                 ELSE "No restrictions were removed"]

\* result = {...} of remove_restrictions
RemoveResult(pid, title, removed, errs) ==
    LET base == [success |-> Len(removed) > 0, page_id |-> pid, page_title |-> title,
                 removed_operations |-> removed,
                 message |-> IF removed # <<>>
                             THEN "Removed restrictions for: " \o Join(", ", removed)
                             ELSE "No restrictions were removed"]
    IN IF errs # <<>> THEN base @@ [warnings |-> errs] ELSE base

\* From "Determine which operations to remove" to the first DELETE.
RemoveBegin ==
    /\ operations_to_remove' = OperationsToRemove(params)
    /\ removed_operations' = <<>>
    /\ errors' = <<>>
    /\ idx' = 1
    /\ Goto("delete")

\* remove_restrictions(params), up to its first await
remove_restrictions(p) ==
    /\ Enter("remove_restrictions", p)
    /\ UNCHANGED <<taskVars, store, env, prev, log, idx, addLocals, removeLocals, syncLocals>>

\* page_id = await _find_page_by_title(...)
RemoveFindPage(resp) ==
    /\ tool = "remove_restrictions" /\ pc = "find_page"
    /\ Exchange(TitleSearchRequest(params.space_key, params.page_title), resp)
    /\ LET found == _find_page_by_title(resp)
       IN /\ page_id' = found
          /\ IF ~Truthy(found)
             THEN Return(PageNotFound(params)) /\ UNCHANGED <<idx, removeLocals>>
             ELSE RemoveBegin
    /\ UNCHANGED <<taskVars, store, env, http_client, tool, params, page_title, prev, addLocals, syncLocals>>

\* response = await client.get(f"/rest/api/content/{page_id}")
RemoveGetTitle(resp) ==
    /\ tool = "remove_restrictions" /\ pc = "get_title"
    /\ Exchange(PageRequest(page_id), resp)
    /\ page_title' = FetchPageTitle(resp)
    /\ RemoveBegin
    /\ UNCHANGED <<taskVars, store, env, http_client, tool, params, page_id, prev, addLocals, syncLocals>>

\* response = await client.delete(...), and the rest of the loop body
RemoveDelete(resp) ==
    /\ tool = "remove_restrictions" /\ pc = "delete"
    /\ LET operation == operations_to_remove[idx]
           r == RemoveOne(operation, resp, removed_operations, errors)
       IN /\ Exchange(DeleteRequest(page_id, operation), resp)
          /\ removed_operations' = r.removed
          /\ errors' = r.errors
          /\ IF idx < Len(operations_to_remove)
             THEN idx' = idx + 1 /\ Goto("delete")
             ELSE /\ idx' = idx
                  /\ Return(RemoveResult(page_id, page_title, r.removed, r.errors))
    /\ UNCHANGED <<taskVars, store, env, http_client, tool, params, pageLocals, operations_to_remove, prev,
                   addLocals, syncLocals>>

(***************************************************************************)
(* sync_user_directory                                                     *)
(***************************************************************************)
SyncEnvironments ==
    [CONFLUENCE_URL : {RStrip(u, "/") : u \in {"https://wiki.example/", "http://wiki.example"}},
     CONFLUENCE_API_TOKEN : {"secret"},
     CONFLUENCE_LOGIN : {"", "admin"},
     CONFLUENCE_LOGIN_PASSWORD : {"", "pw"},
     CONFLUENCE_DIRECTORY_ID : {"", "10000"}]

SyncUserDirectoryInput ==
    [directory_id : {None, "20000"},
     login : {None, "root"},
     password : {None, "", "hunter2"}]

Whitespace == {" ", "\t", "\n", "\r", "\f"}

RECURSIVE Span(_, _, _, _)
\* The end of the longest run of characters from j on that are in chars
\* (inside = TRUE) or not in chars (inside = FALSE): the first index after it.
Span(s, j, chars, inside) ==
    IF j > Len(s) THEN j
    ELSE IF (CharAt(s, j) \in chars) = inside THEN Span(s, j + 1, chars, inside)
    ELSE j

NameAttribute == "name=\"atl_token\""

ValueAttribute == "value=\""

\* name="atl_token"\s+value="([^"]+)" matched at i: group 1, or None
AttributeTokenAt(s, i) ==
    IF ~StartsAt(s, i, NameAttribute) THEN None
    ELSE LET j == i + Len(NameAttribute)
             k == Span(s, j, Whitespace, TRUE)
         IN IF k = j \/ ~StartsAt(s, k, ValueAttribute) THEN None
            ELSE LET a == k + Len(ValueAttribute)
                     b == Span(s, a, {"\""}, FALSE)
                 IN IF b = a \/ b > Len(s) THEN None ELSE SubSeq(s, a, b - 1)

QueryPrefix == "atl_token="

\* atl_token=([^&"\s]+) matched at i: group 1, or None
QueryTokenAt(s, i) ==
    IF ~StartsAt(s, i, QueryPrefix) THEN None
    ELSE LET a == i + Len(QueryPrefix)
             b == Span(s, a, {"&", "\""} \cup Whitespace, FALSE)
         IN IF b = a THEN None ELSE SubSeq(s, a, b - 1)

\* re.search(name="atl_token"\s+value="([^"]+)", s): group 1 of the leftmost match
SearchAttributeToken(s) ==
    LET at == {i \in 1..Len(s) : AttributeTokenAt(s, i) # None}
    IN IF at = {} THEN None
       ELSE AttributeTokenAt(s, CHOOSE i \in at : \A j \in at : i <= j)

\* re.search(atl_token=([^&"\s]+), s): group 1 of the leftmost match
SearchQueryToken(s) ==
    LET at == {i \in 1..Len(s) : QueryTokenAt(s, i) # None}
    IN IF at = {} THEN None
       ELSE QueryTokenAt(s, CHOOSE i \in at : \A j \in at : i <= j)

\* A slip in the order of the patterns: the query-string one is tried first.
ExtractTokenQueryFirst(text) ==
    IF SearchQueryToken(text) # None THEN SearchQueryToken(text)
    ELSE SearchAttributeToken(text)

\* "Step 3: Extract ATL token from response"
ExtractToken(text) ==
    IF SearchAttributeToken(text) # None THEN SearchAttributeToken(text)
    ELSE SearchQueryToken(text)

\* login, password, directory_id of sync_user_directory
SyncLogin(p) == Or(p.login, env.CONFLUENCE_LOGIN)

SyncPassword(p) == Or(p.password, env.CONFLUENCE_LOGIN_PASSWORD)

\* A slip in the fallback: the configured directory ID is not used.
SyncDirectoryIdGiven(p) == p.directory_id

SyncDirectoryId(p) == Or(p.directory_id, env.CONFLUENCE_DIRECTORY_ID)

\* server_url
ServerUrl == RStrip(Replace(Replace(env.CONFLUENCE_URL, "https://", ""), "http://", ""), "/")

MissingCredentials ==
    ErrorResult("Missing credentials. Set CONFLUENCE_LOGIN and CONFLUENCE_LOGIN_PASSWORD environment variables or provide them as parameters.")

MissingDirectoryId ==
    ErrorResult("Missing directory_id. Set CONFLUENCE_DIRECTORY_ID environment variable or provide it as parameter.")

TokenNotFound ==
    ErrorResult("ATL_TOKEN not found in response. Authentication may have failed or user lacks admin permissions.")

\* Answers to POST /rest/tsv/1.0/authenticate
LoginResponses ==
    {[Response(200, "{}", NoJson) EXCEPT !.set_cookie = {"JSESSIONID"}],
     Response(401, "Unauthorized", NoJson),
     Response(403, "Forbidden", NoJson),
     Timeout,
     ConnectError}

AdminPage ==
    "<form><input type=\"hidden\" name=\"atl_token\" value=\"tokA\"></form>"

AdminLink == "<a href=\"/admin/sync?directoryId=1&atl_token=tokQ&x=1\">Synchronise</a>"

\* Answers to POST /doauthenticate.action
AuthenticateResponses ==
    {Response(200, AdminPage, NoJson),
     Response(200, AdminLink, NoJson),
     Response(200, AdminLink \o AdminPage, NoJson),
     Response(200, "<input name=\"atl_token\"\n\t value=\"tokN\">", NoJson),
     Response(200, "<input name=\"atl_token\" value=\"\">", NoJson),
     Response(200, "<html>Log in</html>", NoJson),
     Response(403, "<html>Forbidden</html>", NoJson),
     Response(403, "<a href=\"/retry?atl_token=tokF\">", NoJson),
     Timeout}

\* Answers to POST /plugins/servlet/embedded-crowd/directories/sync
SyncResponses ==
    {Response(200, "<html>ok</html>", NoJson),
     Response(302, "", NoJson),
     Response(403, "Forbidden", NoJson),
     Response(500, LongErrorPage, NoJson),
     Timeout}

LoginRequest(p) ==
    [Request("session", "POST", "/rest/tsv/1.0/authenticate?os_authType=none") EXCEPT
        !.json = <<<<"username", SyncLogin(p)>>, <<"password", SyncPassword(p)>>,
                   <<"rememberMe", "True">>, <<"targetUrl", "">>, <<"captchaId", "">>>>,
        !.headers = <<<<"Content-Type", "application/json">>>>,
        !.cookies = session.cookies]

AuthenticateRequest(p) ==
    [Request("session", "POST", "/doauthenticate.action") EXCEPT
        !.data = <<<<"password", SyncPassword(p)>>, <<"authenticate", "Confirm">>,
                   <<"destination", "/plugins/servlet/embedded-crowd/directories/list">>>>,
        !.headers = <<<<"Content-Type", "application/x-www-form-urlencoded">>, NoCheckHeader>>,
        !.cookies = session.cookies]

\* A slip in an except clause: the exception is swallowed and the step goes on.
RequestFailedIgnored(resp) == FALSE

\* A slip in a step: an error status is taken for a failed request.
RequestFailedOnStatus(resp) == resp.exc # "" \/ resp.status >= 400

\* "except Exception as e" around a request of sync_user_directory
RequestFailed(resp) == resp.exc # ""

\* A slip in the token check: only the empty string counts as no token.
TokenMissingOnlyEmpty(token) == token = ""

\* not atl_token
TokenMissing(token) == ~Truthy(token)

\* A slip in the query string: the two values change places.
SyncUrlSwapped(directory_id, token) ==
    "/plugins/servlet/embedded-crowd/directories/sync?directoryId=" \o token
    \o "&atl_token=" \o directory_id

SyncUrl(directory_id, token) ==
    "/plugins/servlet/embedded-crowd/directories/sync?directoryId=" \o directory_id
    \o "&atl_token=" \o token

SyncRequest(directory_id, token) ==
    [Request("session", "POST", SyncUrl(directory_id, token)) EXCEPT
        !.headers = <<NoCheckHeader>>,
        !.cookies = session.cookies]

\* A slip in the status test: a redirect is not taken for success.
SyncResultOnly200(resp, directory_id) ==
    IF RequestFailed(resp) THEN ErrorResult("Failed to trigger sync: " \o resp.text)
    ELSE IF resp.status = 200
    THEN [success |-> TRUE,
          message |-> "User directory sync triggered successfully for directory ID: "
                      \o directory_id,
          directory_id |-> directory_id]
    ELSE ErrorResult("Sync request returned status " \o ToString(resp.status) \o ": "
                     \o Prefix(resp.text, SnippetLength))

\* The outcome of "Step 4" once the sync request was answered.
SyncResult(resp, directory_id) ==
    IF RequestFailed(resp) THEN ErrorResult("Failed to trigger sync: " \o resp.text)
    ELSE IF resp.status \in {200, 302}
    THEN [success |-> TRUE,
          message |-> "User directory sync triggered successfully for directory ID: "
                      \o directory_id,
          directory_id |-> directory_id]
    ELSE ErrorResult("Sync request returned status " \o ToString(resp.status) \o ": "
                     \o Prefix(resp.text, SnippetLength))

\* A slip: the client is left open when the call returns.
CloseSessionSkipped == UNCHANGED session

\* Leaving "async with httpx.AsyncClient(...) as client" closes the client.
CloseSession == session' = [session EXCEPT !.open = FALSE]

\* sync_user_directory(params), up to its first await
sync_user_directory(p) ==
    /\ pc = "idle"
    /\ tool' = "sync_user_directory"
    /\ params' = p
    /\ IF ~Truthy(SyncLogin(p)) \/ ~Truthy(SyncPassword(p))
       THEN Return(MissingCredentials) /\ UNCHANGED session
       ELSE IF ~Truthy(SyncDirectoryId(p))
       THEN Return(MissingDirectoryId) /\ UNCHANGED session
       ELSE /\ session' = [client |-> "session", open |-> TRUE,
                           base_url |-> "https://" \o ServerUrl, cookies |-> {}]
            /\ Goto("login")
    /\ UNCHANGED <<taskVars, store, env, http_client, prev, log, idx, pageLocals, addLocals, removeLocals,
                   atl_token>>

\* "Step 1: Login to Confluence"
SyncLoginStep(resp) ==
    /\ tool = "sync_user_directory" /\ pc = "login"
    /\ Exchange(LoginRequest(params), resp)
    /\ IF RequestFailed(resp)
       THEN Return(ErrorResult("Login failed: " \o resp.text)) /\ CloseSession
       ELSE /\ session' = [session EXCEPT !.cookies = @ \cup resp.set_cookie]
            /\ Goto("authenticate")
    /\ UNCHANGED <<taskVars, store, env, http_client, tool, params, prev, idx, pageLocals, addLocals,
                   removeLocals, atl_token>>

\* "Step 2: Authenticate to user directories" and "Step 3: Extract ATL token"
SyncAuthenticateStep(resp) ==
    /\ tool = "sync_user_directory" /\ pc = "authenticate"
    /\ Exchange(AuthenticateRequest(params), resp)
    /\ IF RequestFailed(resp)
       THEN /\ Return(ErrorResult("Authentication to user directories failed: " \o resp.text))
            /\ CloseSession
            /\ UNCHANGED atl_token
       ELSE /\ atl_token' = ExtractToken(resp.text)
            /\ IF TokenMissing(ExtractToken(resp.text))
               THEN Return(TokenNotFound) /\ CloseSession
               ELSE Goto("sync") /\ UNCHANGED session
    /\ UNCHANGED <<taskVars, store, env, http_client, tool, params, prev, idx, pageLocals, addLocals,
                   removeLocals>>

\* "Step 4: Trigger directory sync"
SyncTriggerStep(resp) ==
    /\ tool = "sync_user_directory" /\ pc = "sync"
    /\ Exchange(SyncRequest(SyncDirectoryId(params), atl_token), resp)
    /\ Return(SyncResult(resp, SyncDirectoryId(params)))
    /\ CloseSession
    /\ UNCHANGED <<taskVars, store, env, http_client, tool, params, prev, idx, pageLocals, addLocals,
                   removeLocals, atl_token>>

(***************************************************************************)
(* create_page                                                             *)
(***************************************************************************)
Contents == {"hello", "<H1>Plan</H1>"}

CreatePageInput ==
    [space_key : SpaceKeys,
     title : {"Notes"},
     content : Contents,
     parent_id : {None} \cup PageIds,
     parent_title : {None} \cup CallerTitles,
     editor_version : {"v1", "v2"}]

\* Answers to POST /rest/api/content
CreateResponses ==
    {Response(200, "{page}", Json([id |-> "67890", title |-> "Notes"])),
     Response(200, "{}", Json([status |-> "current"])),
     Response(200, "[]", Json(JsonArray(<<>>))),
     Response(200, "<html>", NoJson),
     Response(400, "A page with this title already exists", NoJson),
     Response(403, "Forbidden", NoJson),
     Timeout,
     ConnectError}

_prepare_content_html(content) ==
    IF ~\E tag \in {"<p>", "<h1>", "<h2>", "<h3>", "<div>", "<table>"} :
           Contains(tag, Lower(content))
    THEN "<p>" \o content \o "</p>"
    ELSE content

\* payload, as the pairs of its leaves
Payload(p, parent_id) ==
    <<<<"type", "page">>, <<"title", p.title>>, <<"space.key", p.space_key>>,
      <<"body.storage.value", _prepare_content_html(p.content)>>,
      <<"body.storage.representation", "storage">>>>
    \o (IF Truthy(parent_id) THEN <<<<"ancestors[0].id", parent_id>>>> ELSE <<>>)
    \o (IF p.editor_version = "v2"
        THEN <<<<"metadata.properties.editor.value", "v2">>>> ELSE <<>>)

CreateRequest(p, parent_id) ==
    [Request("shared", "POST", "/rest/api/content") EXCEPT !.json = Payload(p, parent_id)]

BothParentForms ==
    ErrorResult("Cannot specify both parent_id and parent_title. Please use only one.")

ParentNotFound(p) ==
    ErrorResult("Parent page with title '" \o p.parent_title \o "' not found in space '"
                \o p.space_key \o "'")

\* From response.raise_for_status() to the return of create_page.
CreateResult(p, resp) ==
    LET data == JsonOf(resp)
    IN IF data.raised THEN Caught(data.exc)
       ELSE IF IsArray(data.value)
       THEN Caught(Exception("TypeError", 0, "",
                             "list indices must be integers or slices, not str"))
       ELSE IF "id" \notin DOMAIN data.value
       THEN Caught(Exception("KeyError", 0, "", "'id'"))
       ELSE [success |-> TRUE,
             page_id |-> data.value.id,
             page_url |-> env.CONFLUENCE_URL \o "/pages/viewpage.action?pageId="
                          \o data.value.id,
             title |-> p.title,
             space_key |-> p.space_key,
             message |-> "Page '" \o p.title \o "' created successfully"]

\* create_page(params), up to its first await; parent_id is kept in page_id.
create_page(p) ==
    /\ pc = "idle"
    /\ tool' = "create_page"
    /\ params' = p
    /\ http_client' = get_http_client.client
    /\ IF get_http_client.raised
       THEN Return(ConfigError) /\ UNCHANGED page_id
       ELSE IF Truthy(p.parent_id) /\ Truthy(p.parent_title)
       THEN Return(BothParentForms) /\ UNCHANGED page_id
       ELSE /\ page_id' = p.parent_id
            /\ Goto(IF Truthy(p.parent_title) THEN "find_page" ELSE "post")
    /\ UNCHANGED <<taskVars, store, env, prev, log, idx, page_title, addLocals, removeLocals,
                   syncLocals>>

\* A slip after the parent search: the page is created without its parent.
CreateFindParentAnyway(resp) ==
    /\ tool = "create_page" /\ pc = "find_page"
    /\ Exchange(TitleSearchRequest(params.space_key, params.parent_title), resp)
    /\ page_id' = _find_page_by_title(resp)
    /\ Goto("post")
    /\ UNCHANGED <<taskVars, store, env, http_client, tool, params, prev, idx, page_title,
                   addLocals, removeLocals, syncLocals>>

\* parent_id = await _find_page_by_title(...)
CreateFindParent(resp) ==
    /\ tool = "create_page" /\ pc = "find_page"
    /\ Exchange(TitleSearchRequest(params.space_key, params.parent_title), resp)
    /\ page_id' = _find_page_by_title(resp)
    /\ IF ~Truthy(_find_page_by_title(resp))
       THEN Return(ParentNotFound(params))
       ELSE Goto("post")
    /\ UNCHANGED <<taskVars, store, env, http_client, tool, params, prev, idx, page_title,
                   addLocals, removeLocals, syncLocals>>

\* response = await client.post("/rest/api/content", json=payload)
CreatePost(resp) ==
    /\ tool = "create_page" /\ pc = "post"
    /\ Exchange(CreateRequest(params, page_id), resp)
    /\ Return(CreateResult(params, resp))
    /\ UNCHANGED <<taskVars, store, env, http_client, tool, params, prev, idx, pageLocals,
                   addLocals, removeLocals, syncLocals>>

(***************************************************************************)
(* get_restrictions                                                        *)
(***************************************************************************)
GetRestrictionsInput == [page_id : PageIds]

RestrictionsRequest(pid) ==
    [Request("shared", "GET", "/rest/api/content/" \o pid \o "/restriction/byOperation")
     EXCEPT !.params =
        <<<<"expand", "read.restrictions.user,read.restrictions.group,update.restrictions.user,update.restrictions.group">>>>]

\* Answers to GET /rest/api/content/{id}/restriction/byOperation
RestrictionsResponses ==
    {Response(200, "{read, update}",
        Json([read |-> [operation |-> "read",
                        restrictions |->
                            [user |-> [results |->
                                 <<[accountId |-> "u1", displayName |-> "Alice",
                                    email |-> "alice@example.com"],
                                   [accountId |-> "u2", publicName |-> "Bob"],
                                   [username |-> "carol"]>>],
                             group |-> [results |->
                                 <<[id |-> "g1", name |-> "engineering"],
                                   [type |-> "group"]>>]]],
              update |-> [operation |-> "update",
                          restrictions |-> [user |-> [size |-> 0]]]])),
     Response(200, "{update}", Json([update |-> [operation |-> "update"]])),
     Response(200, "{}", Json([id |-> "12345"])),
     Response(200, "[]", Json(JsonArray(<<>>))),
     Response(200, "{read: null}", Json([read |-> JsonNull])),
     Response(200, "{read: {restrictions: {user: []}}}",
        Json([read |-> [restrictions |-> [user |-> JsonArray(<<>>)]]])),
     Response(200, "<html>", NoJson),
     Response(404, "Not Found", NoJson),
     Timeout}

UserEntry(user) ==
    [accountId |-> Get(user, "accountId", None),
     displayName |-> Get(user, "displayName", Get(user, "publicName", "Unknown")),
     email |-> Get(user, "email", "N/A")]

\* A slip in the group entry: the name is read from the id.
GroupEntryNamedById(group) ==
    [id |-> Get(group, "id", None), name |-> Get(group, "id", "Unknown")]

GroupEntry(group) ==
    [id |-> Get(group, "id", None), name |-> Get(group, "name", "Unknown")]

\* The entry of restrictions for one operation of the response.
OperationEntry(op_data) ==
    IF IsNull(op_data)
    THEN Raise("TypeError", "argument of type 'NoneType' is not iterable")
    ELSE LET given(kind) == /\ "restrictions" \in DOMAIN op_data
                            /\ kind \in DOMAIN op_data.restrictions
             listed(kind) == Get(op_data.restrictions[kind], "results", <<>>)
         IN IF \E kind \in {"user", "group"} :
                   given(kind) /\ IsArray(op_data.restrictions[kind])
            THEN Raise("AttributeError", "'list' object has no attribute 'get'")
            ELSE Value([users |-> IF given("user")
                                  THEN [i \in 1..Len(listed("user")) |->
                                           UserEntry(listed("user")[i])]
                                  ELSE <<>>,
                        groups |-> IF given("group")
                                   THEN [i \in 1..Len(listed("group")) |->
                                            GroupEntry(listed("group")[i])]
                                   ELSE <<>>])

\* A slip in the loop: an operation the response leaves out is listed as empty.
ParseRestrictionsBothKeys(data) ==
    LET present == IF IsArray(data) THEN {}
                   ELSE {operation \in {"read", "update"} : operation \in DOMAIN data}
        entry == [operation \in {"read", "update"} |->
                     IF operation \in present THEN OperationEntry(data[operation])
                     ELSE Value([users |-> <<>>, groups |-> <<>>])]
    IN IF entry["read"].raised THEN entry["read"]
       ELSE IF entry["update"].raised THEN entry["update"]
       ELSE Value([operation \in {"read", "update"} |-> entry[operation].value])

\* "Parse restrictions": the dict restrictions, or what the loop raised.
ParseRestrictions(data) ==
    LET present == IF IsArray(data) THEN {}
                   ELSE {operation \in {"read", "update"} : operation \in DOMAIN data}
        entry == [operation \in present |-> OperationEntry(data[operation])]
    IN IF "read" \in present /\ entry["read"].raised THEN entry["read"]
       ELSE IF "update" \in present /\ entry["update"].raised THEN entry["update"]
       ELSE Value([operation \in present |-> entry[operation].value])

GetRestrictionsResult(p, resp) ==
    LET data == JsonOf(resp)
    IN IF data.raised THEN Caught(data.exc)
       ELSE IF ParseRestrictions(data.value).raised
       THEN Caught(ParseRestrictions(data.value).exc)
       ELSE [success |-> TRUE, page_id |-> p.page_id,
             restrictions |-> ParseRestrictions(data.value).value]

\* get_restrictions(params), up to its await
get_restrictions(p) ==
    /\ pc = "idle"
    /\ tool' = "get_restrictions"
    /\ params' = p
    /\ http_client' = get_http_client.client
    /\ IF get_http_client.raised THEN Return(ConfigError) ELSE Goto("get")
    /\ UNCHANGED <<taskVars, store, env, prev, log, idx, pageLocals, addLocals, removeLocals,
                   syncLocals>>

\* response = await client.get(".../restriction/byOperation", ...)
GetRestrictionsAnswered(resp) ==
    /\ tool = "get_restrictions" /\ pc = "get"
    /\ Exchange(RestrictionsRequest(params.page_id), resp)
    /\ Return(GetRestrictionsResult(params, resp))
    /\ UNCHANGED <<taskVars, store, env, http_client, tool, params, prev, idx, pageLocals,
                   addLocals, removeLocals, syncLocals>>

(***************************************************************************)
(* get_space_pages and get_child_pages                                     *)
(***************************************************************************)
GetSpacePagesInput ==
    [space_key : SpaceKeys,
     title : {None} \cup CallerTitles,
     limit : {25},
     start : {0, 25},
     expand : {None, "version,space,history,body.storage"}]

GetChildPagesInput ==
    [page_id : {None} \cup PageIds,
     page_title : {None} \cup CallerTitles,
     space_key : {None} \cup SpaceKeys,
     limit : {25},
     start : {0},
     expand : {None, "version,space,history"}]

PreviewLength == 200

\* Answers to GET /rest/api/content and GET /rest/api/content/{id}/child/page
PageListResponses ==
    {Response(200, "{results}",
        Json([results |->
                 <<[id |-> "1", title |-> "Overview", type |-> "page",
                    status |-> "current",
                    _links |-> [webui |-> "/display/DOCS/Overview"]],
                   [id |-> "2", title |-> "Minutes",
                    version |-> [number |-> 3, by |-> [displayName |-> "Alice"]],
                    space |-> [key |-> "DOCS"],
                    history |-> [createdDate |-> "2024-01-01"],
                    body |-> [storage |-> [value |-> LongErrorPage]]],
                   [title |-> "Draft", body |-> [view |-> "x"]]>>,
              size |-> 3,
              _links |-> [next |-> "/rest/api/content?start=25"]])),
     Response(200, "{results: []}", Json([results |-> <<>>, size |-> 0])),
     Response(200, "{}", Json([id |-> "12345"])),
     Response(200, "[]", Json(JsonArray(<<>>))),
     Response(200, "{results: [str]}", Json([results |-> <<JsonString("x")>>])),
     Response(200, "{results: [{version: null}]}",
        Json([results |-> <<[id |-> "3", version |-> JsonNull]>>])),
     Response(200, "<html>", NoJson),
     Response(500, "Internal Server Error", NoJson),
     Timeout}

\* str(x) in an f-string
Str(x) == IF x = None THEN "None" ELSE x

\* page_info for one entry of results; preview tells whether the handler adds
\* content_preview (get_space_pages does, get_child_pages does not).
PageInfo(page, preview) ==
    IF IsString(page)
    THEN Raise("AttributeError", "'str' object has no attribute 'get'")
    ELSE IF "version" \in DOMAIN page /\ IsNull(page.version)
    THEN Raise("AttributeError", "'NoneType' object has no attribute 'get'")
    ELSE LET content == Get(page.body.storage, "value", "")
         IN Value(
            [id |-> Get(page, "id", None),
             title |-> Get(page, "title", None),
             type |-> Get(page, "type", None),
             status |-> Get(page, "status", None),
             url |-> IF "_links" \in DOMAIN page /\ "webui" \in DOMAIN page._links
                     THEN env.CONFLUENCE_URL \o page._links.webui
                     ELSE env.CONFLUENCE_URL \o "/pages/viewpage.action?pageId="
                          \o Str(Get(page, "id", None))]
            @@ (IF "version" \in DOMAIN page
                THEN [version |->
                        [number |-> Get(page.version, "number", None),
                         when |-> Get(page.version, "when", None),
                         by |-> Get(Get(page.version, "by", EmptyDict),
                                    "displayName", "Unknown")]]
                ELSE EmptyDict)
            @@ (IF "space" \in DOMAIN page
                THEN [space |-> [key |-> Get(page.space, "key", None),
                                 name |-> Get(page.space, "name", None)]]
                ELSE EmptyDict)
            @@ (IF "history" \in DOMAIN page
                THEN [created_date |-> Get(page.history, "createdDate", None),
                      created_by |-> Get(Get(page.history, "createdBy", EmptyDict),
                                         "displayName", "Unknown")]
                ELSE EmptyDict)
            @@ (IF preview /\ "body" \in DOMAIN page /\ "storage" \in DOMAIN page.body
                THEN [content_preview |->
                         Prefix(content, PreviewLength)
                         \o (IF Len(content) > PreviewLength THEN "..." ELSE ""),
                      content_length |-> Len(content)]
                ELSE EmptyDict))

\* "Parse results": the list of page_info, or what the loop raised.
ParsePages(data, preview) ==
    IF IsArray(data)
    THEN Raise("AttributeError", "'list' object has no attribute 'get'")
    ELSE LET results == Get(data, "results", <<>>)
             info == [i \in 1..Len(results) |-> PageInfo(results[i], preview)]
             raising == {i \in 1..Len(results) : info[i].raised}
         IN IF raising # {}
            THEN info[CHOOSE i \in raising : \A j \in raising : i <= j]
            ELSE Value([i \in 1..Len(results) |-> info[i].value])

\* "Add pagination info"
Pagination(data, p) ==
    IF "next" \in DOMAIN Get(data, "_links", EmptyDict)
    THEN [has_more |-> TRUE, next_start |-> p.start + p.limit]
    ELSE [has_more |-> FALSE]

SpacePagesRequest(p) ==
    [Request("shared", "GET", "/rest/api/content") EXCEPT
        !.params = <<<<"spaceKey", p.space_key>>, <<"type", "page">>,
                     <<"limit", ToString(p.limit)>>, <<"start", ToString(p.start)>>>>
                   \o (IF Truthy(p.title) THEN <<<<"title", p.title>>>> ELSE <<>>)
                   \o (IF Truthy(p.expand) THEN <<<<"expand", p.expand>>>> ELSE <<>>)]

SpacePagesResult(p, resp) ==
    LET data == JsonOf(resp)
    IN IF data.raised THEN Caught(data.exc)
       ELSE IF ParsePages(data.value, TRUE).raised
       THEN Caught(ParsePages(data.value, TRUE).exc)
       ELSE [success |-> TRUE,
             space_key |-> p.space_key,
             total_count |-> Get(data.value, "size", 0),
             returned_count |-> Len(ParsePages(data.value, TRUE).value),
             start |-> p.start,
             limit |-> p.limit,
             pages |-> ParsePages(data.value, TRUE).value]
            @@ Pagination(data.value, p)

\* get_space_pages(params), up to its await
get_space_pages(p) ==
    /\ pc = "idle"
    /\ tool' = "get_space_pages"
    /\ params' = p
    /\ http_client' = get_http_client.client
    /\ IF get_http_client.raised THEN Return(ConfigError) ELSE Goto("list")
    /\ UNCHANGED <<taskVars, store, env, prev, log, idx, pageLocals, addLocals, removeLocals,
                   syncLocals>>

\* response = await client.get("/rest/api/content", params=query_params)
SpacePagesAnswered(resp) ==
    /\ tool = "get_space_pages" /\ pc = "list"
    /\ Exchange(SpacePagesRequest(params), resp)
    /\ Return(SpacePagesResult(params, resp))
    /\ UNCHANGED <<taskVars, store, env, http_client, tool, params, prev, idx, pageLocals,
                   addLocals, removeLocals, syncLocals>>

ChildPagesRequest(pid, p) ==
    [Request("shared", "GET", "/rest/api/content/" \o pid \o "/child/page") EXCEPT
        !.params = <<<<"limit", ToString(p.limit)>>, <<"start", ToString(p.start)>>>>
                   \o (IF Truthy(p.expand) THEN <<<<"expand", p.expand>>>> ELSE <<>>)]

ChildPagesResult(p, pid, title, resp) ==
    LET data == JsonOf(resp)
    IN IF data.raised THEN Caught(data.exc)
       ELSE IF ParsePages(data.value, FALSE).raised
       THEN Caught(ParsePages(data.value, FALSE).exc)
       ELSE [success |-> TRUE,
             parent_page_id |-> pid,
             parent_page_title |-> title,
             total_count |-> Get(data.value, "size", 0),
             returned_count |-> Len(ParsePages(data.value, FALSE).value),
             start |-> p.start,
             limit |-> p.limit,
             child_pages |-> ParsePages(data.value, FALSE).value]
            @@ Pagination(data.value, p)

\* get_child_pages(params), up to its first await; parent_page_title is kept
\* in page_title.
get_child_pages(p) ==
    /\ Enter("get_child_pages", p)
    /\ UNCHANGED <<taskVars, store, env, prev, log, idx, addLocals, removeLocals, syncLocals>>

\* page_id = await _find_page_by_title(...)
ChildFindPage(resp) ==
    /\ tool = "get_child_pages" /\ pc = "find_page"
    /\ Exchange(TitleSearchRequest(params.space_key, params.page_title), resp)
    /\ page_id' = _find_page_by_title(resp)
    /\ IF ~Truthy(_find_page_by_title(resp))
       THEN Return(PageNotFound(params))
       ELSE Goto("list")
    /\ UNCHANGED <<taskVars, store, env, http_client, tool, params, page_title, prev, idx,
                   addLocals, removeLocals, syncLocals>>

\* response = await client.get(f"/rest/api/content/{page_id}")
ChildGetTitle(resp) ==
    /\ tool = "get_child_pages" /\ pc = "get_title"
    /\ Exchange(PageRequest(page_id), resp)
    /\ page_title' = FetchPageTitle(resp)
    /\ Goto("list")
    /\ UNCHANGED <<taskVars, store, env, http_client, tool, params, page_id, prev, idx,
                   addLocals, removeLocals, syncLocals>>

\* response = await client.get(f"/rest/api/content/{page_id}/child/page", ...)
ChildList(resp) ==
    /\ tool = "get_child_pages" /\ pc = "list"
    /\ Exchange(ChildPagesRequest(page_id, params), resp)
    /\ Return(ChildPagesResult(params, page_id, page_title, resp))
    /\ UNCHANGED <<taskVars, store, env, http_client, tool, params, prev, idx, pageLocals,
                   addLocals, removeLocals, syncLocals>>

(***************************************************************************)
(* Tool calls side by side.  FastMCP runs each call as a coroutine on one  *)
(* event loop: a call runs alone from one await to the next, and at an     *)
(* await another call may run.  Here a call is reduced to what it does     *)
(* with clients: the handle it takes, the client each request goes out on, *)
(* the cookies and the token of a directory session.                       *)
(***************************************************************************)
Tasks == 1..MaxTasks

\* The handlers that start with "client = get_http_client()".
ToolsOnSharedClient ==
    {"create_page", "add_restrictions", "get_restrictions", "remove_restrictions",
     "get_space_pages", "get_child_pages"}

\* The locals of a call that has not started.
NoTask ==
    [tool |-> "none", pc |-> "idle",
     client |-> NoClient,      \* client = get_http_client()
     error |-> None,           \* what the outer except turned into the outcome
     used |-> {},              \* the clients its requests went out on
     given |-> {},             \* the cookies its responses set
     carried |-> {},           \* the cookies its requests carried
     page |-> None,            \* auth_response.text
     token |-> None,           \* atl_token
     sent |-> None]            \* the URL of its sync-trigger request

\* A slip: one directory session object for all the calls.
SessionForAll(t) == [client |-> "session", owner |-> 0]

\* The httpx.AsyncClient a sync call constructs: an object of its own.
SessionOf(t) == [client |-> "session", owner |-> t]

\* The cookie jar of a client.
JarOf(c) == IF c \in DOMAIN jars THEN jars[c] ELSE {}

PutJar(c, cookies) ==
    [d \in DOMAIN jars \cup {c} |-> IF d = c THEN cookies ELSE jars[d]]

\* aclose(): the client and its cookies are gone.
DropJar(c) == [d \in DOMAIN jars \ {c} |-> jars[d]]

\* The variables of the one call the other specifications follow.
callVars ==
    <<tool, pc, params, page_id, page_title, user_account_ids, group_ids, idx,
      form_body, operations_to_remove, removed_operations, errors, atl_token,
      session, log, result, prev, store>>

\* A handler on the shared client, up to its first await.
TaskCall(t, name) ==
    /\ tasks[t].pc = "idle"
    /\ http_client' = get_http_client.client
    /\ tasks' = [tasks EXCEPT ![t] =
                    IF get_http_client.raised
                    THEN [NoTask EXCEPT !.tool = name, !.pc = "done",
                                        !.error = ConfigError.error]
                    ELSE [NoTask EXCEPT !.tool = name, !.pc = "request",
                                        !.client = get_http_client.client]]
    /\ UNCHANGED <<env, jars, callVars>>

\* await client.get(...) / post(...) / delete(...) of such a handler; more
\* tells whether another request follows.
TaskRequest(t, more) ==
    /\ tasks[t].pc = "request"
    /\ tasks' = [tasks EXCEPT ![t].used = @ \cup {tasks[t].client},
                              ![t].pc = IF more THEN "request" ELSE "done"]
    /\ UNCHANGED <<env, http_client, jars, callVars>>

\* sync_user_directory up to its first await: "async with httpx.AsyncClient(...)"
TaskSync(t) ==
    /\ tasks[t].pc = "idle"
    /\ tasks' = [tasks EXCEPT ![t] =
                    [NoTask EXCEPT !.tool = "sync_user_directory", !.pc = "login",
                                   !.client = SessionOf(t)]]
    /\ jars' = IF SessionOf(t) \in DOMAIN jars THEN jars ELSE PutJar(SessionOf(t), {})
    /\ UNCHANGED <<env, http_client, callVars>>

\* Answers to the login request: the backend starts a session of its own for
\* each login.
TaskLoginResponses ==
    {[Response(200, "{}", NoJson) EXCEPT !.set_cookie = {"JSESSIONID=a"}],
     [Response(200, "{}", NoJson) EXCEPT !.set_cookie = {"JSESSIONID=b"}],
     Timeout}

TaskAuthenticateResponses ==
    {Response(200, AdminPage, NoJson),
     Response(200, AdminLink, NoJson),
     Response(200, "<html>Log in</html>", NoJson),
     Timeout}

TaskSyncResponses == {Response(302, "", NoJson), Response(403, "Forbidden", NoJson), Timeout}

\* The request of a sync call goes out on its client with that client's cookies.
TaskSend(t) ==
    [tasks[t] EXCEPT !.used = @ \cup {tasks[t].client},
                     !.carried = @ \cup JarOf(tasks[t].client)]

\* "Step 1: Login to Confluence"
TaskLogin(t, resp) ==
    /\ tasks[t].tool = "sync_user_directory" /\ tasks[t].pc = "login"
    /\ IF RequestFailed(resp)
       THEN /\ tasks' = [tasks EXCEPT ![t] = [TaskSend(t) EXCEPT !.pc = "done"]]
            /\ jars' = DropJar(tasks[t].client)
       ELSE /\ tasks' = [tasks EXCEPT ![t] =
                           [TaskSend(t) EXCEPT !.pc = "authenticate",
                                               !.given = @ \cup resp.set_cookie]]
            /\ jars' = PutJar(tasks[t].client, JarOf(tasks[t].client) \cup resp.set_cookie)
    /\ UNCHANGED <<env, http_client, callVars>>

\* "Step 2: Authenticate to user directories" and "Step 3: Extract ATL token"
TaskAuthenticate(t, resp) ==
    /\ tasks[t].tool = "sync_user_directory" /\ tasks[t].pc = "authenticate"
    /\ IF RequestFailed(resp)
       THEN /\ tasks' = [tasks EXCEPT ![t] = [TaskSend(t) EXCEPT !.pc = "done"]]
            /\ jars' = DropJar(tasks[t].client)
       ELSE IF TokenMissing(ExtractToken(resp.text))
       THEN /\ tasks' = [tasks EXCEPT ![t] =
                           [TaskSend(t) EXCEPT !.pc = "done", !.page = resp.text]]
            /\ jars' = DropJar(tasks[t].client)
       ELSE /\ tasks' = [tasks EXCEPT ![t] =
                           [TaskSend(t) EXCEPT !.pc = "sync", !.page = resp.text,
                                               !.token = ExtractToken(resp.text)]]
            /\ UNCHANGED jars
    /\ UNCHANGED <<env, http_client, callVars>>

\* "Step 4: Trigger directory sync"
TaskTrigger(t, resp) ==
    /\ tasks[t].tool = "sync_user_directory" /\ tasks[t].pc = "sync"
    /\ tasks' = [tasks EXCEPT ![t] =
                    [TaskSend(t) EXCEPT
                        !.pc = "done",
                        !.sent = SyncUrl(env.CONFLUENCE_DIRECTORY_ID, tasks[t].token)]]
    /\ jars' = DropJar(tasks[t].client)
    /\ UNCHANGED <<env, http_client, callVars>>

\* The outcome goes back to the caller.
TaskReturn(t) ==
    /\ tasks[t].pc = "done"
    /\ tasks' = [tasks EXCEPT ![t] = NoTask]
    /\ UNCHANGED <<env, http_client, jars, callVars>>

(***************************************************************************)
(* The specification.                                                      *)
(***************************************************************************)
NoParams == [none |-> TRUE]

\* What a remove_restrictions call that ran its loop leaves for the next call
\* to be compared with, and the tool of a call that ended on the missing
\* configuration.
Summary ==
    IF tool = "remove_restrictions" /\ "removed_operations" \in DOMAIN result
    THEN [tool |-> tool, page_id |-> page_id,
          success |-> result.success,
          removed_operations |-> result.removed_operations,
          no_content |-> {log[i].req.url : i \in {j \in 1..Len(log) :
                             log[j].req.method = "DELETE" /\ log[j].resp.status = 204}}]
    ELSE IF result = ConfigError THEN [tool |-> "none", unconfigured |-> tool]
    ELSE NoPrev

Idle ==
    /\ tool = "none"
    /\ pc = "idle"
    /\ params = NoParams
    /\ page_id = None
    /\ page_title = None
    /\ user_account_ids = Unset
    /\ group_ids = Unset
    /\ idx = 0
    /\ form_body = ""
    /\ operations_to_remove = <<>>
    /\ removed_operations = <<>>
    /\ errors = <<>>
    /\ atl_token = None
    /\ session = NoSession
    /\ log = <<>>
    /\ result = NoResult

\* No call runs beside the one followed.
NoTasks == tasks = [t \in Tasks |-> NoTask] /\ jars = <<>>

\* The outcome goes back to the caller; the call's frame is gone.
Complete ==
    /\ pc = "done"
    /\ prev' = Summary
    /\ tool' = "none"
    /\ pc' = "idle"
    /\ params' = NoParams
    /\ page_id' = None
    /\ page_title' = None
    /\ user_account_ids' = Unset
    /\ group_ids' = Unset
    /\ idx' = 0
    /\ form_body' = ""
    /\ operations_to_remove' = <<>>
    /\ removed_operations' = <<>>
    /\ errors' = <<>>
    /\ atl_token' = None
    /\ session' = NoSession
    /\ log' = <<>>
    /\ result' = NoResult
    /\ UNCHANGED <<env, http_client, taskVars, store>>

Init ==
    /\ env \in Environments \cup SyncEnvironments
    /\ http_client = NoClient
    /\ prev = NoPrev
    /\ Idle
    /\ NoTasks
    /\ store = NoGrants

InitRest ==
    /\ env \in Environments
    /\ http_client = NoClient
    /\ prev = NoPrev
    /\ Idle
    /\ NoTasks
    /\ store = NoGrants

InitSync ==
    /\ env \in SyncEnvironments
    /\ http_client = NoClient
    /\ prev = NoPrev
    /\ Idle
    /\ NoTasks
    /\ store = NoGrants

\* Configurations with and without what each tool needs.
CallEnvironments ==
    Environments
    \cup {[e EXCEPT !.CONFLUENCE_API_TOKEN = ""] :
             e \in {f \in SyncEnvironments : f.CONFLUENCE_URL = "https://wiki.example"}}

InitCall ==
    /\ env \in CallEnvironments
    /\ http_client = NoClient
    /\ prev = NoPrev
    /\ Idle
    /\ NoTasks
    /\ store = NoGrants

InitTasks ==
    /\ env \in Environments
    /\ http_client = NoClient
    /\ prev = NoPrev
    /\ Idle
    /\ NoTasks
    /\ store = NoGrants

\* A backend that stores grants.  POST /pages/setcontentpermissions.action
\* keeps every view grant of the form as a read restriction and every edit
\* grant as an update restriction of the page named by contentId, and answers
\* "true"; GET /rest/api/content/{id}/restriction/byOperation lists them.
FormKeys ==
    [viewPermissionsUserList |-> [operation |-> "read", kind |-> "user"],
     editPermissionsUserList |-> [operation |-> "update", kind |-> "user"],
     viewPermissionsGroupList |-> [operation |-> "read", kind |-> "group"],
     editPermissionsGroupList |-> [operation |-> "update", kind |-> "group"]]

\* The key and the value of one form field, cut at its "=".
FieldKey(field) ==
    LET cut == CHOOSE i \in 1..(Len(field) + 1) :
                   /\ i = Len(field) + 1 \/ CharAt(field, i) = "="
                   /\ \A j \in 1..(i - 1) : CharAt(field, j) # "="
    IN [key |-> SubSeq(field, 1, cut - 1), value |-> SubSeq(field, cut + 1, Len(field))]

\* The fields of a form body, cut at each "&".
RECURSIVE FormFields(_)
FormFields(body) ==
    IF \A i \in 1..Len(body) : CharAt(body, i) # "&" THEN <<body>>
    ELSE LET cut == CHOOSE i \in 1..Len(body) :
                        /\ CharAt(body, i) = "&"
                        /\ \A j \in 1..(i - 1) : CharAt(body, j) # "&"
         IN <<SubSeq(body, 1, cut - 1)>> \o FormFields(SubSeq(body, cut + 1, Len(body)))

\* The grants a form body asks for.
Granted(body) ==
    LET fields == {FieldKey(FormFields(body)[i]) : i \in 1..Len(FormFields(body))}
        page == CHOOSE f \in fields : f.key = "contentId"
    IN {[page |-> page.value, operation |-> FormKeys[f.key].operation,
         kind |-> FormKeys[f.key].kind, id |-> f.value] :
           f \in {g \in fields : g.key \in DOMAIN FormKeys}}

\* The IDs stored for one page, operation and kind, in some fixed order.
StoredIds(grants, pid, operation, kind) ==
    LET ids == {g.id : g \in {h \in grants : /\ h.page = pid
                                             /\ h.operation = operation
                                             /\ h.kind = kind}}
    IN CHOOSE s \in [1..Cardinality(ids) -> ids] : {s[i] : i \in DOMAIN s} = ids

StoredOperation(grants, pid, operation) ==
    LET users == StoredIds(grants, pid, operation, "user")
        groups == StoredIds(grants, pid, operation, "group")
    IN [operation |-> operation,
        restrictions |->
            [user |-> [results |-> [i \in 1..Len(users) |->
                                       [type |-> "known", accountId |-> users[i],
                                        displayName |-> users[i]]],
                       size |-> Len(users)],
             group |-> [results |-> [i \in 1..Len(groups) |->
                                        [type |-> "group", name |-> groups[i]]],
                        size |-> Len(groups)]]]

\* The backend's answer to GET /rest/api/content/{pid}/restriction/byOperation.
StoredAnswer(grants, pid) ==
    Response(200, "{read, update}",
             Json([read |-> StoredOperation(grants, pid, "read"),
                   update |-> StoredOperation(grants, pid, "update")]))

\* The permissions POST reaches the backend, which stores the grants.
AddPostStored ==
    /\ AddPostAnswered(Response(200, "true", NoJson))
    /\ store' = store \cup Granted(form_body)

\* get_restrictions is answered from the grants the backend holds.
GetRestrictionsStored == GetRestrictionsAnswered(StoredAnswer(store, params.page_id))

\* add_restrictions against the storing backend, then get_restrictions; one
\* add_restrictions call reaches the backend.
RoundTripSteps ==
    \/ pc = "idle" /\ store = NoGrants /\ \E p \in AddRestrictionInput : add_restrictions(p)
    \/ \E resp \in TitleSearchResponses : AddFindPage(resp)
    \/ \E resp \in PageResponses : AddGetTitle(resp)
    \/ AddFindUser
    \/ AddSearchUser
    \/ AddPostStored
    \/ \E resp \in {r \in PermissionResponses : r.exc # ""} : AddPost(resp)
    \/ pc = "idle" /\ \E p \in GetRestrictionsInput : get_restrictions(p)
    \/ GetRestrictionsStored

NextRoundTrip == RoundTripSteps \/ Complete

AddSteps ==
    \/ pc = "idle" /\ \E p \in AddRestrictionInput : add_restrictions(p)
    \/ \E resp \in TitleSearchResponses : AddFindPage(resp)
    \/ \E resp \in PageResponses : AddGetTitle(resp)
    \/ AddFindUser
    \/ AddSearchUser
    \/ \E resp \in PermissionResponses : AddPost(resp)

NextAdd == AddSteps \/ Complete

RemoveSteps ==
    \/ pc = "idle" /\ \E p \in RemoveRestrictionInput : remove_restrictions(p)
    \/ \E resp \in TitleSearchResponses : RemoveFindPage(resp)
    \/ \E resp \in PageResponses : RemoveGetTitle(resp)
    \/ \E resp \in DeleteResponses : RemoveDelete(resp)

NextRemove == RemoveSteps \/ Complete

SyncSteps ==
    \/ pc = "idle" /\ \E p \in SyncUserDirectoryInput : sync_user_directory(p)
    \/ \E resp \in LoginResponses : SyncLoginStep(resp)
    \/ \E resp \in AuthenticateResponses : SyncAuthenticateStep(resp)
    \/ \E resp \in SyncResponses : SyncTriggerStep(resp)

NextSync == SyncSteps \/ Complete

PagesSteps ==
    \/ pc = "idle" /\ \E p \in CreatePageInput : create_page(p)
    \/ \E resp \in TitleSearchResponses : CreateFindParent(resp)
    \/ \E resp \in CreateResponses : CreatePost(resp)
    \/ pc = "idle" /\ \E p \in GetRestrictionsInput : get_restrictions(p)
    \/ \E resp \in RestrictionsResponses : GetRestrictionsAnswered(resp)
    \/ pc = "idle" /\ \E p \in GetSpacePagesInput : get_space_pages(p)
    \/ \E resp \in PageListResponses : SpacePagesAnswered(resp)
    \/ pc = "idle" /\ \E p \in GetChildPagesInput : get_child_pages(p)
    \/ \E resp \in TitleSearchResponses : ChildFindPage(resp)
    \/ \E resp \in PageResponses : ChildGetTitle(resp)
    \/ \E resp \in PageListResponses : ChildList(resp)

NextPages == PagesSteps \/ Complete

NextTasks ==
    \E t \in Tasks :
        \/ \E name \in ToolsOnSharedClient : TaskCall(t, name)
        \/ \E more \in BOOLEAN : TaskRequest(t, more)
        \/ TaskSync(t)
        \/ \E resp \in TaskLoginResponses : TaskLogin(t, resp)
        \/ \E resp \in TaskAuthenticateResponses : TaskAuthenticate(t, resp)
        \/ \E resp \in TaskSyncResponses : TaskTrigger(t, resp)
        \/ TaskReturn(t)

\* The outcome goes back while the shared handle is still unconstructed.
CompleteUnbuilt == http_client = NoClient /\ Complete

\* The steps of a call of any of the seven tools.
CallSteps == AddSteps \/ RemoveSteps \/ SyncSteps \/ PagesSteps

\* One call at a time, of any of the seven tools.
Next == CallSteps \/ Complete

Spec == Init /\ [][Next]_vars

\* One call of any tool in a process that has just started.
SpecCall == InitCall /\ [][CallSteps]_vars

SpecPages == InitRest /\ [][NextPages]_vars

SpecTasks == InitTasks /\ [][NextTasks]_vars

SpecAdd == InitRest /\ [][NextAdd]_vars

\* Calls of any of the seven tools, one after the other for as long as the
\* shared handle is unconstructed.
SpecUnbuilt == InitCall /\ [][CallSteps \/ CompleteUnbuilt]_vars

SpecRoundTrip == InitRest /\ [][NextRoundTrip]_vars

SpecRemove == InitRest /\ [][NextRemove]_vars

SpecSync == InitSync /\ [][NextSync]_vars


(***************************************************************************)
(* Properties.                                                             *)
(***************************************************************************)
\* s.split(sep), sep one character
Split(s, sep) ==
    LET cuts == {i \in 1..Len(s) : CharAt(s, i) = sep}
        starts == {1} \cup {i + 1 : i \in cuts}
        nth(k) == CHOOSE a \in starts : Cardinality({b \in starts : b < a}) = k - 1
        stop(a) == CHOOSE e \in cuts \cup {Len(s) + 1} :
                       e >= a /\ \A c \in cuts \cup {Len(s) + 1} : c >= a => e <= c
    IN [k \in 1..Cardinality(starts) |-> SubSeq(s, nth(k), stop(nth(k)) - 1)]

Count(seq, x) == Cardinality({i \in DOMAIN seq : seq[i] = x})

Range(seq) == {seq[i] : i \in DOMAIN seq}

AddDone == tool = "add_restrictions" /\ pc = "done"

RemoveDone == tool = "remove_restrictions" /\ pc = "done"

SyncDone == tool = "sync_user_directory" /\ pc = "done"

\* The requests of the call that change something on the backend.
Writes == {i \in 1..Len(log) : log[i].req.method # "GET"}

\* The requests of the call to the legacy permissions endpoint.
PermissionPosts ==
    {i \in 1..Len(log) : /\ log[i].req.method = "POST"
                         /\ log[i].req.url = "/pages/setcontentpermissions.action"}

\* C1: an add_restrictions call that reaches the merge of its principals with
\* both merged lists empty returns success = false with an input error ("At
\* least one user or group must be specified" when no group name was given,
\* and otherwise the group name that did not resolve), and its requests hold
\* no write: no POST to /pages/setcontentpermissions.action is issued.
C1_EmptyPrincipalsRejected ==
    (AddDone /\ group_ids # Unset /\ user_account_ids = <<>> /\ group_ids = <<>>) =>
        /\ result.success = FALSE
        /\ "error" \in DOMAIN result
        /\ result.error \in
              {"At least one user or group must be specified"}
              \cup {"Group '" \o n \o "' not found" : n \in Range(params.group_names)}
        /\ params.group_names = <<>> =>
              result.error = "At least one user or group must be specified"
        /\ Writes = {}

C1_Witness ==
    /\ AddDone
    /\ Len(log) = 1
    /\ user_account_ids = <<>> /\ group_ids = <<>>
    /\ params.group_names = <<>>
    /\ result = ErrorResult("At least one user or group must be specified")

\* Whether the page's title makes it sensitive, as the specification words it.
TitleSensitive == Contains("Private", page_title) \/ Contains("Shared", page_title)

\* C2: in the form body of every permissions POST, each entry of the merged
\* user list and of the merged group list has exactly one view grant when the
\* operation is read, one view and one edit grant when it is update and the
\* title contains "Private" or "Shared", and one edit grant and no view grant
\* when it is update and the title contains neither (an ID listed k times has
\* k times these grants); update for the one group "engineering" on the page
\* 12345 whose title is not sensitive submits exactly
\* editPermissionsGroupList=engineering&contentId=12345.
C2_GrantsPerPrincipal ==
    \A i \in PermissionPosts :
        LET fields == Split(log[i].req.content, "&")
            view == IF params.operation = "read" \/ TitleSensitive THEN 1 ELSE 0
            edit == IF params.operation = "update" THEN 1 ELSE 0
        IN /\ tool = "add_restrictions"
           /\ \A id \in Range(user_account_ids) :
                 /\ Count(fields, "viewPermissionsUserList=" \o id)
                       = view * Count(user_account_ids, id)
                 /\ Count(fields, "editPermissionsUserList=" \o id)
                       = edit * Count(user_account_ids, id)
           /\ \A id \in Range(group_ids) :
                 /\ Count(fields, "viewPermissionsGroupList=" \o id)
                       = view * Count(group_ids, id)
                 /\ Count(fields, "editPermissionsGroupList=" \o id)
                       = edit * Count(group_ids, id)
           /\ Len(fields) = (view + edit) * (Len(user_account_ids) + Len(group_ids)) + 1
           /\ (/\ params.operation = "update" /\ ~TitleSensitive
               /\ user_account_ids = <<>> /\ group_ids = <<"engineering">>
               /\ page_id = "12345")
              => log[i].req.content = "editPermissionsGroupList=engineering&contentId=12345"

C2_Witness ==
    /\ AddDone
    /\ page_title = "Architecture"
    /\ \E i \in PermissionPosts :
          log[i].req.content = "editPermissionsGroupList=engineering&contentId=12345"

\* Neither token pattern matches the text.
NoTokenIn(text) == SearchAttributeToken(text) = None /\ SearchQueryToken(text) = None

SyncPath == "/plugins/servlet/embedded-crowd/directories/sync"

\* The sync-trigger requests of the call.
SyncTriggers == {i \in 1..Len(log) : StartsAt(log[i].req.url, 1, SyncPath)}

\* C3: when the body of the re-authentication response matches neither token
\* pattern, sync_user_directory returns success = false with the message that
\* the token was not found, and the call issues no sync-trigger request.
C3_NoTokenNoSync ==
    (/\ tool = "sync_user_directory" /\ Len(log) >= 2
     /\ log[2].resp.exc = "" /\ NoTokenIn(log[2].resp.text)) =>
        /\ pc = "done"
        /\ result.success = FALSE
        /\ StartsAt(result.error, 1, "ATL_TOKEN not found in response")
        /\ SyncTriggers = {}
        /\ Len(log) = 2

C3_Witness ==
    /\ SyncDone
    /\ Len(log) = 2
    /\ log[2].resp.text = "<html>Log in</html>"
    /\ result.success = FALSE

\* The URL of the request sync_user_directory issues as its i-th.
StepUrl(i) ==
    IF i = 1 THEN "/rest/tsv/1.0/authenticate?os_authType=none"
    ELSE IF i = 2 THEN "/doauthenticate.action"
    ELSE SyncPath

\* C4: the requests of a sync_user_directory call are, in this order, the
\* login, the re-authentication and the sync trigger, all on the call's own
\* client and carrying its cookies; the re-authentication is issued only after
\* the login was answered, and the sync trigger only after a token was found
\* in the re-authentication response of the same call, and its URL carries
\* exactly that token and the call's directory ID.
C4_StepOrder ==
    tool = "sync_user_directory" =>
        /\ Len(log) <= 3
        /\ \A i \in 1..Len(log) :
              /\ log[i].req.client = "session"
              /\ log[i].req.method = "POST"
              /\ StartsAt(log[i].req.url, 1, StepUrl(i))
              /\ i > 1 => /\ log[i - 1].resp.exc = ""
                          /\ log[1].resp.set_cookie \subseteq log[i].req.cookies
        /\ Len(log) = 3 =>
              LET token == ExtractToken(log[2].resp.text)
              IN /\ token # None
                 /\ token = atl_token
                 /\ log[3].req.url =
                       SyncPath \o "?directoryId="
                       \o Or(params.directory_id, env.CONFLUENCE_DIRECTORY_ID)
                       \o "&atl_token=" \o token

C4_Witness ==
    /\ SyncDone
    /\ Len(log) = 3
    /\ params.directory_id = "20000"
    /\ log[3].req.url = SyncPath \o "?directoryId=20000&atl_token=tokA"
    /\ result.success

\* C5: a step of sync_user_directory that fails ends the call at once, with
\* success = false and the error of that step, and no request of a later step
\* is issued: "Login failed" when the login request raises, "Authentication to
\* user directories failed" when the re-authentication request raises, the
\* token-not-found error when no token is extracted, and a failure of the sync
\* trigger itself.
C5_FailureShortCircuits ==
    tool = "sync_user_directory" =>
        /\ (Len(log) >= 1 /\ log[1].resp.exc # "") =>
              /\ pc = "done" /\ Len(log) = 1
              /\ result.success = FALSE
              /\ StartsAt(result.error, 1, "Login failed: ")
        /\ (Len(log) >= 2 /\ log[2].resp.exc # "") =>
              /\ pc = "done" /\ Len(log) = 2
              /\ result.success = FALSE
              /\ StartsAt(result.error, 1, "Authentication to user directories failed: ")
        /\ (Len(log) >= 2 /\ log[2].resp.exc = "" /\ NoTokenIn(log[2].resp.text)) =>
              /\ pc = "done" /\ Len(log) = 2
              /\ result = TokenNotFound
        /\ (Len(log) >= 3 /\ (log[3].resp.exc # "" \/ log[3].resp.status \notin {200, 302})) =>
              /\ pc = "done" /\ Len(log) = 3
              /\ result.success = FALSE
              /\ \/ StartsAt(result.error, 1, "Failed to trigger sync: ")
                 \/ StartsAt(result.error, 1, "Sync request returned status ")

C5_Witness ==
    /\ SyncDone
    /\ Len(log) = 1
    /\ log[1].resp.exc = "TimeoutException"
    /\ result = ErrorResult("Login failed: ")


\* The DELETE requests of the call.
Deletes == {i \in 1..Len(log) : log[i].req.method = "DELETE"}

RestrictionUrl(pid, operation) ==
    "/rest/api/content/" \o pid \o "/restriction/byOperation/" \o operation

\* The operation a DELETE request of the call is for.
DeletedOperation(i) ==
    CHOOSE operation \in Operations : log[i].req.url = RestrictionUrl(page_id, operation)

\* The call ran the removal loop to its end.
RemoveLoopDone == RemoveDone /\ "removed_operations" \in DOMAIN result

\* C6: a targeted operation whose DELETE is answered 404 is listed in
\* removed_operations and the call reports success; when the call before was
\* a remove_restrictions on the same page whose DELETE for that operation
\* was answered 204, both calls report success and list the operation.
C6_NotFoundCountsAsRemoved ==
    RemoveLoopDone =>
        \A i \in Deletes :
            log[i].resp.status = 404 =>
                /\ DeletedOperation(i) \in Range(result.removed_operations)
                /\ result.success = TRUE
                /\ (/\ prev.tool = "remove_restrictions"
                    /\ prev.page_id = page_id
                    /\ log[i].req.url \in prev.no_content)
                   => /\ prev.success = TRUE
                      /\ DeletedOperation(i) \in Range(prev.removed_operations)

C6_Witness ==
    /\ RemoveLoopDone
    /\ prev.tool = "remove_restrictions"
    /\ prev.page_id = page_id
    /\ \E i \in Deletes : /\ log[i].resp.status = 404
                          /\ log[i].req.url \in prev.no_content
                          /\ DeletedOperation(i) = "read"
    /\ result.success = TRUE

\* The DELETE was not answered with a success status or 404.
DeleteFailed(resp) == resp.exc # "" \/ resp.status \notin (200..299) \cup {404}

\* C7: remove_restrictions issues one DELETE for every operation of its target
\* set, in order, however the earlier DELETEs ended; every failed DELETE adds
\* one warning; success is true exactly when one of the DELETEs did not fail.
C7_EveryOperationAttempted ==
    /\ (tool = "remove_restrictions" /\ pc = "delete") =>
          Cardinality(Deletes) < Len(operations_to_remove)
    /\ RemoveLoopDone =>
          LET failed == {i \in Deletes : DeleteFailed(log[i].resp)}
              warnings == IF "warnings" \in DOMAIN result THEN result.warnings ELSE <<>>
          IN /\ Cardinality(Deletes) = Len(operations_to_remove)
             /\ \A k \in 1..Len(operations_to_remove) :
                   LET i == Len(log) - Len(operations_to_remove) + k
                   IN /\ i \in Deletes
                      /\ log[i].req.url = RestrictionUrl(page_id, operations_to_remove[k])
             /\ Len(warnings) = Cardinality(failed)
             /\ ("warnings" \in DOMAIN result) = (failed # {})
             /\ result.success = (Deletes \ failed # {})

C7_Witness ==
    /\ RemoveLoopDone
    /\ Len(operations_to_remove) = 2
    /\ log[Len(log) - 1].resp.status = 500
    /\ log[Len(log)].resp.status = 204
    /\ result.success = TRUE
    /\ Len(result.warnings) = 1

\* The text has "true" in it, whatever the case of its letters.
SaysTrue(text) == Contains("true", Lower(text))

\* C8 as stated: for every call that submitted, success is true exactly when
\* the body of the response to the permissions POST contains "true".
C8_AsStated ==
    AddDone =>
        \A i \in PermissionPosts :
            log[i].resp.exc = "" =>
                (result.success = (/\ Len(user_account_ids) + Len(group_ids) >= 1
                                   /\ SaysTrue(log[i].resp.text)))

\* C8, amended: for every call that submitted, success is true exactly when at
\* least one principal was submitted, the permissions POST was answered with a
\* 2xx status and the body contains "true" in any case; a 2xx response without
\* it gives success = false and one warning that ends with the first 200
\* characters of the body, in an outcome of the usual shape (the call is not
\* aborted).
C8_SuccessBySubstring ==
    AddDone =>
        \A i \in PermissionPosts :
            LET resp == log[i].resp
                answered == resp.exc = "" /\ resp.status \in 200..299
            IN /\ result.success = (/\ Len(user_account_ids) + Len(group_ids) >= 1
                                    /\ answered
                                    /\ SaysTrue(resp.text))
               /\ (answered /\ ~SaysTrue(resp.text)) =>
                     /\ result.success = FALSE
                     /\ result.users_added = 0 /\ result.groups_added = 0
                     /\ result.message = "No restrictions were added"
                     /\ result.warnings =
                           <<"API returned unexpected response: "
                             \o SubSeq(resp.text, 1, Min(200, Len(resp.text)))>>

C8_Witness ==
    /\ AddDone
    /\ \E i \in PermissionPosts :
          /\ log[i].resp.status = 200
          /\ Len(log[i].resp.text) > 200
          /\ Len(result.warnings[1]) = Len("API returned unexpected response: ") + 200
    /\ result.success = FALSE

\* The request did not yield an account ID, and no further lookup follows it.
Unresolved(i) ==
    \/ /\ log[i].req.url = "/rest/api/user"
       /\ UserLookupResult(log[i].resp) = None
    \/ /\ log[i].req.url = "/rest/api/search/user"
       /\ ~Truthy(UserSearchResult(log[i].resp))

\* C9: when a user identifier does not resolve, add_restrictions ends at once
\* with success = false and the error "User '<identifier>' not found"; when a
\* group name does not resolve (the empty name), it ends with "Group '<name>'
\* not found"; in both cases no POST to the permissions endpoint is issued.
C9_UnresolvedFailsTheCall ==
    tool = "add_restrictions" =>
        /\ \A i \in 1..Len(log) :
              Unresolved(i) =>
                  /\ pc = "done"
                  /\ i = Len(log)
                  /\ result = ErrorResult("User '" \o log[i].req.params[1][2] \o "' not found")
                  /\ log[i].req.params[1][2] \in Range(params.user_identifiers)
                  /\ PermissionPosts = {}
        /\ (group_ids # Unset /\ \E k \in DOMAIN params.group_names :
                                    ~Truthy(params.group_names[k])) =>
              /\ pc = "done"
              /\ result = ErrorResult("Group '' not found")
              /\ PermissionPosts = {}

C9_Witness ==
    /\ AddDone
    /\ params.user_account_ids = <<"u1">>
    /\ params.user_identifiers = <<"bob">>
    /\ result = ErrorResult("User 'bob' not found")
    /\ log[Len(log)].req.url = "/rest/api/search/user"

\* The place of a form field in the order the specification gives.
FieldRank(field) ==
    IF StartsAt(field, 1, "viewPermissionsUserList=") THEN 1
    ELSE IF StartsAt(field, 1, "editPermissionsUserList=") THEN 2
    ELSE IF StartsAt(field, 1, "viewPermissionsGroupList=") THEN 3
    ELSE IF StartsAt(field, 1, "editPermissionsGroupList=") THEN 4
    ELSE IF StartsAt(field, 1, "contentId=") THEN 5
    ELSE 0

\* C10 as stated: the fields of the form body are all user view grants, then
\* all user edit grants, then all group view grants, then all group edit
\* grants, then contentId.
C10_AsStated ==
    \A i \in PermissionPosts :
        LET fields == Split(log[i].req.content, "&")
        IN /\ \A a, b \in 1..Len(fields) :
                 a < b => FieldRank(fields[a]) <= FieldRank(fields[b])
           /\ FieldRank(fields[Len(fields)]) = 5

\* C10, amended: the fields of the form body are, for each user in the order
\* of the merged list, its view grant (if any) directly followed by its edit
\* grant (if any), then the same for each group in the order of the merged
\* list, then contentId as the last field.
C10_FieldOrder ==
    \A i \in PermissionPosts :
        LET fields == Split(log[i].req.content, "&")
            both == params.operation = "update" /\ TitleSensitive
            per == IF both THEN 2 ELSE 1
            grant(j) == IF both THEN (IF j = 1 THEN "view" ELSE "edit")
                        ELSE IF params.operation = "read" THEN "view" ELSE "edit"
            nu == Len(user_account_ids)
            ng == Len(group_ids)
        IN /\ Len(fields) = per * (nu + ng) + 1
           /\ \A k \in 1..nu : \A j \in 1..per :
                 fields[(k - 1) * per + j]
                    = grant(j) \o "PermissionsUserList=" \o user_account_ids[k]
           /\ \A k \in 1..ng : \A j \in 1..per :
                 fields[(nu + k - 1) * per + j]
                    = grant(j) \o "PermissionsGroupList=" \o group_ids[k]
           /\ fields[Len(fields)] = "contentId=" \o page_id

C10_Witness ==
    /\ AddDone
    /\ \E i \in PermissionPosts :
          log[i].req.content =
              "viewPermissionsUserList=u1&editPermissionsUserList=u1&"
              \o "viewPermissionsUserList=u2&editPermissionsUserList=u2&contentId=12345"

\* The base URL and the API token are both set.
Configured == env.CONFLUENCE_URL # "" /\ env.CONFLUENCE_API_TOKEN # ""

\* The calls in progress that took the shared client.
OnSharedClient ==
    {t \in Tasks : tasks[t].tool \in ToolsOnSharedClient /\ tasks[t].error = None}

\* In every state the shared handle is absent or the first object constructed,
\* and every call in progress holds and uses that very handle; without the
\* base URL or the token no handle is stored and the call ends with the
\* missing-configuration error.
OneSharedClient ==
    /\ http_client = NoClient \/ http_client = SharedClient
    /\ \A t \in OnSharedClient :
          /\ tasks[t].client = http_client
          /\ tasks[t].client # NoClient
          /\ tasks[t].used \subseteq {http_client}
    /\ ~Configured =>
          /\ http_client = NoClient
          /\ \A t \in Tasks :
                tasks[t].tool \in ToolsOnSharedClient =>
                    /\ tasks[t].pc = "done"
                    /\ tasks[t].error = "Error: " \o MissingEnvironment
                    /\ tasks[t].used = {}

\* A step changes the shared handle only from absent to constructed, and only
\* as the first step of a handler that then holds it.
BuiltLazilyOnce ==
    http_client' # http_client =>
        /\ http_client = NoClient
        /\ Configured
        /\ \E t \in Tasks :
              /\ tasks[t].pc = "idle"
              /\ tasks'[t].tool \in ToolsOnSharedClient
              /\ tasks'[t].client = http_client'

\* C11: over every sequence and interleaving of calls of the tools on the
\* shared client, the client is constructed at most once, lazily, by the first
\* get_http_client call made with the base URL and the token present, and
\* every later call gets that same handle; without the base URL or the token
\* the call fails with the missing-configuration error and no handle is stored.
C11_SharedClientBuiltOnce == []OneSharedClient /\ [][BuiltLazilyOnce]_vars

C11_Witness ==
    /\ tasks[1].tool = "add_restrictions" /\ tasks[1].pc = "request"
    /\ tasks[2].tool = "get_restrictions" /\ tasks[2].pc = "done"
    /\ tasks[1].used = {http_client}
    /\ tasks[2].used = {http_client}
    /\ http_client # NoClient


\* The sync calls in progress.
Syncing == {t \in Tasks : tasks[t].tool = "sync_user_directory"}

\* Every request of a sync call in progress went out on the client the call
\* constructed, which is not the shared one and is held by no other call; the
\* cookies it carried are cookies its own responses set; its token and the
\* URL of its sync trigger come from its own re-authentication response.
OwnSession ==
    \A t \in Syncing :
        /\ tasks[t].client # http_client
        /\ tasks[t].client.client # "shared"
        /\ tasks[t].used \subseteq {tasks[t].client}
        /\ \A u \in Tasks \ {t} : tasks[u].client # tasks[t].client
        /\ tasks[t].carried \subseteq tasks[t].given
        /\ tasks[t].token # None => tasks[t].token = ExtractToken(tasks[t].page)
        /\ tasks[t].sent # None =>
              tasks[t].sent = SyncUrl(env.CONFLUENCE_DIRECTORY_ID,
                                      ExtractToken(tasks[t].page))

\* A step of a sync call leaves the shared handle as it is.
SharedClientUntouched ==
    (\E t \in Tasks : /\ tasks'[t] # tasks[t]
                      /\ \/ tasks[t].tool = "sync_user_directory"
                         \/ tasks'[t].tool = "sync_user_directory")
    => http_client' = http_client

\* C12: sync_user_directory never takes, uses or changes the shared client:
\* its requests go out on a client the call constructed; with sync calls
\* running beside each other and beside other tools, the cookies and the
\* token of a call stay in the call, and the token in its sync-trigger
\* request is the one extracted from its own re-authentication response.
C12_SyncSessionIsolated == []OwnSession /\ [][SharedClientUntouched]_vars

C12_Witness ==
    /\ http_client # NoClient
    /\ tasks[1].tool = "sync_user_directory" /\ tasks[1].pc = "done"
    /\ tasks[1].sent = SyncUrl(env.CONFLUENCE_DIRECTORY_ID, "tokA")
    /\ tasks[1].carried = {"JSESSIONID=a"}
    /\ tasks[2].tool = "sync_user_directory" /\ tasks[2].pc = "sync"
    /\ tasks[2].token = "tokQ"
    /\ tasks[2].carried = {"JSESSIONID=b"}


\* The awaits of sync_user_directory inside its "async with".
InSession == tool = "sync_user_directory" /\ pc \in {"login", "authenticate", "sync"}

\* C13: the client of a sync_user_directory call is opened fresh inside the
\* call (no cookies, no request made), stays open while the call is at one
\* of its requests, and is closed in every state where the call has returned
\* or no sync call is in progress.
C13_SessionClosedOnReturn ==
    /\ session.open = InSession
    /\ (tool = "sync_user_directory" /\ pc = "login") =>
          /\ log = <<>>
          /\ session = [client |-> "session", open |-> TRUE,
                        base_url |-> "https://" \o ServerUrl, cookies |-> {}]
    /\ SyncDone => (session.client = "session") = (log # <<>>)

C13_Witness ==
    /\ SyncDone
    /\ Len(log) = 3
    /\ log[3].resp.status = 403
    /\ result.success = FALSE
    /\ session.client = "session"
    /\ session.open = FALSE


\* The requests one call can make at most: the page lookup, two lookups for
\* each user identifier, and the write.
RequestBound == 2 * MaxPrincipals + 2

\* C14: every call of the seven tools, whatever the backend answers (any
\* status, a malformed body, a timeout, a connection error) and with the
\* configuration missing, ends by returning an outcome that carries a success
\* flag: a call that has not returned can always take its next step, it makes
\* a bounded number of requests, and what it returns is never an exception
\* that escaped the handler.
C14_StructuredOutcome ==
    /\ pc \notin {"idle", "done"} => ENABLED CallSteps
    /\ Len(log) <= RequestBound
    /\ pc = "done" =>
          /\ "success" \in DOMAIN result
          /\ result.success \in BOOLEAN
          /\ "escaped" \notin DOMAIN result

C14_Witness ==
    /\ tool = "get_space_pages"
    /\ pc = "done"
    /\ Len(log) = 1
    /\ log[1].resp.status = 200
    /\ result = ErrorResult("Error: Unexpected error occurred: AttributeError - "
                            \o "'NoneType' object has no attribute 'get'")


\* C15: once the sync-trigger request of sync_user_directory is answered, the
\* call returns success = true exactly when the status is 200 or 302; with
\* any other status it returns success = false and an error made of the
\* status and the first 200 characters of the body at most.
C15_SyncStatusDecides ==
    (SyncDone /\ Len(log) = 3 /\ log[3].resp.exc = "") =>
        LET resp == log[3].resp
        IN /\ result.success = (resp.status \in {200, 302})
           /\ resp.status \notin {200, 302} =>
                 result = ErrorResult("Sync request returned status "
                                      \o ToString(resp.status) \o ": "
                                      \o SubSeq(resp.text, 1, Min(200, Len(resp.text))))

C15_Witness ==
    /\ SyncDone
    /\ Len(log) = 3
    /\ log[3].resp.status = 500
    /\ Len(log[3].resp.text) > 200
    /\ Len(result.error) = Len("Sync request returned status 500: ") + 200


\* The operations the DELETE requests of the call so far are for.
DeletedOperations == {DeletedOperation(i) : i \in Deletes}

\* The target set of a remove_restrictions call.
TargetOperations ==
    IF params.remove_all \/ params.operation = None THEN {"read", "update"}
    ELSE {params.operation}

\* C16: remove_restrictions issues DELETEs for {read, update} when remove_all
\* is true (whatever operation is given) or no operation is given, and for the
\* single named operation otherwise; at no point has it issued a DELETE for an
\* operation outside that set.
C16_TargetOperations ==
    tool = "remove_restrictions" =>
        /\ DeletedOperations \subseteq TargetOperations
        /\ RemoveLoopDone => DeletedOperations = TargetOperations

C16_Witness ==
    /\ RemoveLoopDone
    /\ params.remove_all = TRUE
    /\ params.operation = "read"
    /\ DeletedOperations = {"read", "update"}


\* The identifier a user lookup or a user search asks for.
IdentifierOf(i) == log[i].req.params[1][2]

IsLookup(i) == log[i].req.url = "/rest/api/user"

IsSearch(i) == log[i].req.url = "/rest/api/search/user"

\* The username lookup gave no account ID: a transport error, a status other
\* than 200, or a 200 response without one.
NoAccount(resp) == UserLookupResult(resp) \in {None, "search"}

\* C17 as stated: whenever the username lookup yields no account ID the fuzzy
\* search with the same identifier follows, the search never comes before the
\* lookup, and "not found" is returned only after both were tried.
C17_AsStated ==
    tool = "add_restrictions" =>
        /\ \A i \in 1..Len(log) :
              (IsLookup(i) /\ NoAccount(log[i].resp)) =>
                  IF i = Len(log) THEN pc = "search_user"
                  ELSE IsSearch(i + 1) /\ IdentifierOf(i + 1) = IdentifierOf(i)
        /\ \A i \in 1..Len(log) :
              IsSearch(i) =>
                  i > 1 /\ IsLookup(i - 1) /\ IdentifierOf(i - 1) = IdentifierOf(i)
        /\ \A identifier \in UserIdentifiers :
              (pc = "done" /\ result = UserNotFound(identifier)) =>
                  IsSearch(Len(log)) /\ IdentifierOf(Len(log)) = identifier


\* The tools that find a page by its title.
ToolsWithTitleSearch ==
    {"add_restrictions", "remove_restrictions", "get_child_pages", "create_page"}

\* The outcome of a title search that found no page.
NotFoundOutcome ==
    IF tool = "create_page" THEN ParentNotFound(params) ELSE PageNotFound(params)

\* The title search of the call ended in a timeout, a connection error or an
\* error status.
TitleSearchFailed ==
    /\ tool \in ToolsWithTitleSearch
    /\ Len(log) >= 1
    /\ log[1].req.method = "GET" /\ log[1].req.url = "/rest/api/content"
    /\ log[1].resp.exc # "" \/ log[1].resp.status \notin 200..299

\* C18 as stated: when the title search ends in a timeout, a connection
\* error or an error status, the outcome of the call is not the "Page with
\* title 'X' not found in space 'Y'" outcome of a search with no result.
C18_AsStated == (pc = "done" /\ TitleSearchFailed) => result # NotFoundOutcome


\* The title search was answered and holds no page.
NoMatchingPage(resp) ==
    /\ resp.exc = ""
    /\ resp.status \in 200..299
    /\ resp.json.valid
    /\ Len(Get(resp.json.obj, "results", <<>>)) = 0

\* C19: when the title search of add_restrictions or remove_restrictions
\* returns no matching page, the call has returned success = false with the
\* message that names the title and the space, and the title search is the
\* only request it made.
C19_NoPageNoFurtherRequest ==
    (/\ tool \in {"add_restrictions", "remove_restrictions"}
     /\ Len(log) >= 1
     /\ log[1].req.method = "GET" /\ log[1].req.url = "/rest/api/content"
     /\ NoMatchingPage(log[1].resp))
    => /\ pc = "done"
       /\ Len(log) = 1
       /\ result = [success |-> FALSE,
                    error |-> "Page with title '" \o params.page_title
                              \o "' not found in space '" \o params.space_key \o "'"]

C19_Witness ==
    /\ tool = "remove_restrictions"
    /\ pc = "done"
    /\ Len(log) = 1
    /\ NoMatchingPage(log[1].resp)
    /\ result.error = "Page with title 'Team Notes' not found in space 'DOCS'"


\* The first request of the call is the title lookup for the given page ID.
TitleLookedUp ==
    /\ tool \in {"add_restrictions", "remove_restrictions"}
    /\ Len(log) >= 1
    /\ log[1].req = PageRequest(page_id)

\* The answer to the title lookup does not yield a title: the request failed,
\* the status is an error, or the body is not a page object with a title text.
TitleLookupFailed(resp) ==
    \/ resp.exc # ""
    \/ RaisesForStatus(resp)
    \/ ~resp.json.valid
    \/ "title" \notin DOMAIN resp.json.obj
    \/ resp.json.obj.title = None

\* The outcomes of a call that stopped because its principals did not resolve.
PrincipalErrors ==
    {NoPrincipals}
    \cup {UserNotFound(n) : n \in Range(params.user_identifiers)}
    \cup {GroupNotFound(n) : n \in Range(params.group_names)}

\* The form fields of the permissions POST i hold no view grant.
EditGrantsOnly(i) ==
    \A f \in Range(Split(log[i].req.content, "&")) : ~Contains("viewPermissions", f)

\* C20: when add_restrictions or remove_restrictions is called with a page ID
\* and the title lookup fails, the title is the empty string, the call is not
\* ended by the lookup (it ends without a write only when its principals do
\* not resolve), and an update submits edit grants only.
C20_AsStated ==
    (TitleLookedUp /\ TitleLookupFailed(log[1].resp)) =>
        /\ page_title = ""
        /\ (pc = "done" /\ Writes = {}) => result \in PrincipalErrors
        /\ \A i \in PermissionPosts : params.operation = "update" => EditGrantsOnly(i)


\* The form fields of the permissions POST i that grant something to group n.
GroupGrants(i, n) ==
    Count(Split(log[i].req.content, "&"), "viewPermissionsGroupList=" \o n)
    + Count(Split(log[i].req.content, "&"), "editPermissionsGroupList=" \o n)

\* The call ended with the group-not-found error for one of its group names.
GroupNotFoundOutcome ==
    AddDone /\ \E n \in Range(params.group_names) : result = GroupNotFound(n)

\* No request of the call resolves a group, and every permissions POST carries
\* each given group name as a group ID.
GroupNamesAreIds ==
    tool = "add_restrictions" =>
        /\ \A i \in 1..Len(log) : ~Contains("group", log[i].req.url)
        /\ \A i \in PermissionPosts :
              /\ group_ids = params.group_ids \o params.group_names
              /\ \A n \in Range(params.group_names) : GroupGrants(i, n) >= 1

\* C21 as stated: group names are used as group IDs without a request, and
\* add_restrictions never fails with a group-not-found error, the empty name
\* included.
C21_AsStated == GroupNamesAreIds /\ ~GroupNotFoundOutcome

\* C21: every non-empty group name in group_names is used as the group ID in
\* the submitted form and no request is issued to resolve it; an empty group
\* name ends add_restrictions with "Group '' not found" before any write, and
\* that is the only group-not-found error.
C21_GroupNamesAreIds ==
    /\ GroupNamesAreIds
    /\ \A i \in PermissionPosts : "" \notin Range(params.group_names)
    /\ GroupNotFoundOutcome =>
          /\ "" \in Range(params.group_names)
          /\ result = GroupNotFound("")
          /\ Writes = {}

C21_Witness ==
    /\ AddDone
    /\ params.group_names = <<"engineering">>
    /\ params.group_ids = <<"g1">>
    /\ \E i \in PermissionPosts : log[i].req.content =
          "viewPermissionsGroupList=g1&viewPermissionsGroupList=engineering&contentId=12345"
    /\ result.success


\* The number of form fields of the permissions POST i that start with pat.
FieldsWith(i, pat) ==
    LET fields == Split(log[i].req.content, "&")
    IN Cardinality({k \in DOMAIN fields : StartsAt(fields[k], 1, pat)})

\* The number of principals of one kind ("User" or "Group") in the form body
\* of the permissions POST i: each has a view grant, an edit grant, or both.
PrincipalsIn(i, kind) ==
    LET view == FieldsWith(i, "viewPermissions" \o kind \o "List=")
        edit == FieldsWith(i, "editPermissions" \o kind \o "List=")
    IN IF view >= edit THEN view ELSE edit

\* The permissions POST i was answered 2xx with a body that contains "true".
Accepted(i) ==
    /\ log[i].resp.exc = ""
    /\ log[i].resp.status \in 200..299
    /\ SaysTrue(log[i].resp.text)

\* C22 as stated: for every call that issued the POST, users_added and
\* groups_added are the numbers of user and group principals in the form body
\* that was submitted.
C22_AsStated ==
    AddDone =>
        \A i \in PermissionPosts :
            /\ result.users_added = PrincipalsIn(i, "User")
            /\ result.groups_added = PrincipalsIn(i, "Group")

\* C22: for every call that issued the POST, users_added and groups_added are
\* the numbers of user and group principals in the submitted form body when
\* the POST was answered 2xx with "true" in the body, and both are 0 when the
\* POST failed or was answered otherwise.
C22_CountsOfSubmitted ==
    AddDone =>
        \A i \in PermissionPosts :
            IF Accepted(i)
            THEN /\ result.users_added = PrincipalsIn(i, "User")
                 /\ result.groups_added = PrincipalsIn(i, "Group")
                 /\ result.users_added = Len(user_account_ids)
                 /\ result.groups_added = Len(group_ids)
            ELSE /\ result.users_added = 0
                 /\ result.groups_added = 0
                 /\ PrincipalsIn(i, "User") + PrincipalsIn(i, "Group") >= 1

C22_Witness ==
    /\ AddDone
    /\ params.operation = "update"
    /\ \E i \in PermissionPosts : Accepted(i) /\ PrincipalsIn(i, "User") = 1
                                  /\ PrincipalsIn(i, "Group") = 1
    /\ result.users_added = 1
    /\ result.groups_added = 1


\* The form body of the permissions POST i names no principal of the merged
\* lists in more than one view field or more than one edit field.
SubmittedOnce(i) ==
    LET fields == Split(log[i].req.content, "&")
    IN /\ \A id \in Range(user_account_ids) :
             /\ Count(fields, "viewPermissionsUserList=" \o id) <= 1
             /\ Count(fields, "editPermissionsUserList=" \o id) <= 1
       /\ \A id \in Range(group_ids) :
             /\ Count(fields, "viewPermissionsGroupList=" \o id) <= 1
             /\ Count(fields, "editPermissionsGroupList=" \o id) <= 1

\* C23 as stated: the merged principals of add_restrictions are sets: an ID
\* given in the direct list and through a resolved identifier, or twice in
\* one list, is submitted once, and counted once in users_added and
\* groups_added of a call whose POST was accepted.
C23_AsStated ==
    tool = "add_restrictions" =>
        \A i \in PermissionPosts :
            /\ SubmittedOnce(i)
            /\ (pc = "done" /\ Accepted(i)) =>
                  /\ result.users_added = Cardinality(Range(user_account_ids))
                  /\ result.groups_added = Cardinality(Range(group_ids))


\* The writes of the call that failed: a permissions POST that was not
\* accepted, a DELETE that raised or was answered with an error status.
FailedWrites ==
    {i \in PermissionPosts : ~Accepted(i)}
    \cup {i \in Deletes : DeleteFailed(log[i].resp)}

\* C24 as stated: every outcome with success = false has an error field, and
\* every outcome of a call in which a write failed has a warnings field.
C24_AsStated ==
    pc = "done" =>
        /\ result.success = FALSE => "error" \in DOMAIN result
        /\ FailedWrites # {} => "warnings" \in DOMAIN result

\* C24: every outcome with success = false has either an error field or a
\* warnings field, never both: the error field when the call was ended by an
\* input error, a resolution that found nothing or an exception (the outcome
\* is then success and error only), the warnings field with a message when
\* add_restrictions or remove_restrictions sent its writes and none went
\* through; every outcome of a call in which a write failed has a warnings
\* field with one entry per failed write.
C24_ErrorOrWarnings ==
    pc = "done" =>
        /\ result.success = FALSE =>
              ("error" \in DOMAIN result) # ("warnings" \in DOMAIN result)
        /\ "error" \in DOMAIN result =>
              /\ DOMAIN result = {"success", "error"}
              /\ result.success = FALSE
              /\ FailedWrites = {}
        /\ "warnings" \in DOMAIN result =>
              /\ tool \in {"add_restrictions", "remove_restrictions"}
              /\ "message" \in DOMAIN result
              /\ Len(result.warnings) = Cardinality(FailedWrites)
        /\ FailedWrites # {} => "warnings" \in DOMAIN result

C24_Witness ==
    /\ AddDone
    /\ \E i \in PermissionPosts : log[i].resp.exc = "" /\ log[i].resp.status = 403
    /\ result.success = FALSE
    /\ "error" \notin DOMAIN result
    /\ Len(result.warnings) = 1
    /\ result.message = "No restrictions were added"


\* The tools whose outcomes carry a message when they are not error outcomes.
ToolsWithMessage ==
    {"create_page", "add_restrictions", "remove_restrictions", "sync_user_directory"}

\* C25 as stated: every outcome of a tool, successful or failed, has a message
\* field.
C25_AsStated == pc = "done" => "message" \in DOMAIN result

\* C25: an outcome has a message field exactly when it is an outcome of
\* create_page, add_restrictions, remove_restrictions or sync_user_directory
\* that has no error field; an outcome with an error field carries its text
\* there and has no message, and a successful outcome of get_restrictions,
\* get_space_pages or get_child_pages carries only its data.
C25_MessageWhere ==
    pc = "done" =>
        /\ "message" \in DOMAIN result <=>
              (tool \in ToolsWithMessage /\ "error" \notin DOMAIN result)
        /\ "message" \in DOMAIN result => Len(result.message) > 0
        /\ "error" \in DOMAIN result => Len(result.error) > 0
        /\ ("message" \notin DOMAIN result /\ "error" \notin DOMAIN result) =>
              /\ result.success = TRUE
              /\ tool \in {"get_restrictions", "get_space_pages", "get_child_pages"}

C25_Witness ==
    /\ tool = "get_restrictions"
    /\ pc = "done"
    /\ result.success = TRUE
    /\ DOMAIN result = {"success", "page_id", "restrictions"}


\* get_restrictions has returned and its request was answered 2xx with JSON.
RestrictionsAnswered ==
    /\ tool = "get_restrictions" /\ pc = "done"
    /\ Len(log) = 1
    /\ log[1].resp.exc = ""
    /\ log[1].resp.status \in 200..299
    /\ log[1].resp.json.valid

\* The operations that are keys of the backend response.
OperationsGiven == {"read", "update"} \cap DOMAIN log[1].resp.json.obj

\* The value of an operation key is an object whose user and group
\* restrictions, where given, are objects.
OperationWellFormed(op_data) ==
    /\ ~IsNull(op_data)
    /\ \A kind \in {"user", "group"} :
          ("restrictions" \in DOMAIN op_data /\ kind \in DOMAIN op_data.restrictions)
              => ~IsArray(op_data.restrictions[kind])

\* The number of entries the response lists for one kind under one operation.
EntriesGiven(op_data, kind) ==
    IF "restrictions" \in DOMAIN op_data /\ kind \in DOMAIN op_data.restrictions
    THEN Len(Get(op_data.restrictions[kind], "results", <<>>))
    ELSE 0

\* C26: in the result of get_restrictions, read and update each are a key of
\* restrictions exactly when they are a key of the backend response; an absent
\* operation is left out and success stays true; a present operation carries
\* a users list and a groups list with one entry per entry of the response,
\* empty when the response has none.
C26_OperationsAsGiven ==
    (RestrictionsAnswered
     /\ \A op \in OperationsGiven : OperationWellFormed(log[1].resp.json.obj[op]))
    => /\ result.success = TRUE
       /\ DOMAIN result.restrictions = OperationsGiven
       /\ \A op \in OperationsGiven :
             /\ DOMAIN result.restrictions[op] = {"users", "groups"}
             /\ Len(result.restrictions[op].users)
                   = EntriesGiven(log[1].resp.json.obj[op], "user")
             /\ Len(result.restrictions[op].groups)
                   = EntriesGiven(log[1].resp.json.obj[op], "group")

C26_Witness ==
    /\ RestrictionsAnswered
    /\ OperationsGiven = {"update"}
    /\ result = [success |-> TRUE, page_id |-> params.page_id,
                 restrictions |-> [update |-> [users |-> <<>>, groups |-> <<>>]]]


\* The grant of one operation on a page to a group.
GroupGrant(pid, operation, group) ==
    [page |-> pid, operation |-> operation, kind |-> "group", id |-> group]

\* C27: against a backend that stores grants, once add_restrictions with
\* operation read for a group on a page has returned success the backend
\* holds the read grant of that group on that page, and a get_restrictions on
\* the page that follows returns success with an entry named after the group
\* in restrictions.read.groups.
C27_RoundTrip ==
    /\ (AddDone /\ result.success = TRUE /\ params.operation = "read") =>
          \A k \in 1..Len(group_ids) : GroupGrant(page_id, "read", group_ids[k]) \in store
    /\ (tool = "get_restrictions" /\ pc = "done" /\ Len(log) = 1) =>
          \A g \in store :
              g = GroupGrant(params.page_id, "read", g.id) =>
                  /\ result.success = TRUE
                  /\ \E k \in 1..Len(result.restrictions.read.groups) :
                        result.restrictions.read.groups[k].name = g.id

C27_Witness ==
    /\ tool = "get_restrictions" /\ pc = "done" /\ Len(log) = 1
    /\ store = {GroupGrant("12345", "read", "engineering")}
    /\ params.page_id = "12345"
    /\ result.restrictions.read.groups = <<[id |-> None, name |-> "engineering"]>>
    /\ result.restrictions.update.groups = <<>>


\* The tools that take a page by ID or by title and space.
ToolsByPageReference == {"add_restrictions", "remove_restrictions", "get_child_pages"}

BothForms(p) == Truthy(p.page_id) /\ Truthy(p.page_title)

NeitherForm(p) == ~Truthy(p.page_id) /\ ~Truthy(p.page_title)

TitleWithoutSpace(p) == Truthy(p.page_title) /\ ~Truthy(p.space_key)

\* C28: a call of add_restrictions, remove_restrictions or get_child_pages
\* with both page_id and page_title, with neither, or with page_title and no
\* space_key has returned success = false without any request (with the input
\* error for its case whenever the server is configured); a call that made a
\* request was entered with exactly one of the two forms, a title with its
\* space key, and its first request resolves that form.
C28_OneReferenceForm ==
    tool \in ToolsByPageReference =>
        /\ (BothForms(params) \/ NeitherForm(params) \/ TitleWithoutSpace(params)) =>
              /\ pc = "done"
              /\ log = <<>>
              /\ result.success = FALSE
              /\ "error" \in DOMAIN result
              /\ Configured =>
                    result = IF BothForms(params) THEN BothPageForms
                             ELSE IF NeitherForm(params) THEN NoPageForm
                             ELSE SpaceKeyRequired
        /\ Len(log) >= 1 =>
              /\ Truthy(params.page_id) # Truthy(params.page_title)
              /\ Truthy(params.page_title) =>
                    /\ Truthy(params.space_key)
                    /\ log[1].req = TitleSearchRequest(params.space_key, params.page_title)
              /\ Truthy(params.page_id) => log[1].req = PageRequest(params.page_id)

C28_Witness ==
    /\ tool = "get_child_pages"
    /\ pc = "done"
    /\ params.page_id = None /\ params.page_title = "Team Notes" /\ params.space_key = None
    /\ log = <<>>
    /\ result = ErrorResult("space_key is required when using page_title")


\* The token values the backend's pages carry.
PageTokens == {"tokA", "tokQ", "tokN", "tokF"}

\* The text holds the token v in the attribute style: name="atl_token",
\* white space, value="v".
HasAttributeToken(text, v) ==
    \E space \in {" ", "\n\t "} :
        Contains(NameAttribute \o space \o ValueAttribute \o v \o "\"", text)

\* The text holds the token v in the query-string style: atl_token=v up to
\* an "&" or a quote.
HasQueryToken(text, v) ==
    \E stop \in {"&", "\""} : Contains(QueryPrefix \o v \o stop, text)

\* C29: the token in the sync-trigger request is the attribute-style one
\* whenever the re-authentication body holds one, also when the body holds a
\* query-string one with another value; it is the query-string one when the
\* body holds only that form.
C29_AttributeTokenFirst ==
    \A i \in SyncTriggers :
        LET text == log[i - 1].resp.text
            attribute == {v \in PageTokens : HasAttributeToken(text, v)}
            query == {v \in PageTokens : HasQueryToken(text, v)}
        IN /\ log[i - 1].req.url = "/doauthenticate.action"
           /\ attribute \cup query # {}
           /\ attribute # {} =>
                 \E v \in attribute :
                     log[i].req.url = SyncUrl(SyncDirectoryId(params), v)
           /\ attribute = {} =>
                 \E v \in query :
                     log[i].req.url = SyncUrl(SyncDirectoryId(params), v)

C29_Witness ==
    \E i \in SyncTriggers :
        /\ log[i - 1].resp.text = AdminLink \o AdminPage
        /\ HasAttributeToken(log[i - 1].resp.text, "tokA")
        /\ HasQueryToken(log[i - 1].resp.text, "tokQ")
        /\ log[i].req.url = SyncUrl(SyncDirectoryId(params), "tokA")


\* How many requests of the call are the request i.
Copies(i) == Cardinality({j \in 1..Len(log) : log[j].req = log[i].req})

\* How many times the input asks for the request i: a user lookup or search
\* once for every time its identifier is listed, any other request once.
Asked(i) ==
    IF tool = "add_restrictions" /\ (IsLookup(i) \/ IsSearch(i))
    THEN Count(params.user_identifiers, IdentifierOf(i))
    ELSE 1

\* The DELETEs of the call that failed.
FailedDeletes == {i \in Deletes : DeleteFailed(log[i].resp)}

\* C30: no tool repeats a request: every request is in the call as many times
\* as the input asks for it; add_restrictions issues the permissions POST at
\* most once, remove_restrictions at most one DELETE per operation, and
\* sync_user_directory each of its three requests at most once.  A failed POST
\* or sync request is the last request of its call, and the outcome shows the
\* first failure: a failed POST and the first failed DELETE in warnings[1], a
\* failed sync request in error, with success = false where nothing went
\* through.
C30_NoRetry ==
    /\ \A i \in 1..Len(log) : Copies(i) <= Asked(i)
    /\ tool = "add_restrictions" =>
          /\ Cardinality(PermissionPosts) <= 1
          /\ \A i \in PermissionPosts :
                ~Accepted(i) =>
                    /\ pc = "done" /\ i = Len(log)
                    /\ result.success = FALSE
                    /\ Len(result.warnings) = 1
    /\ tool = "remove_restrictions" =>
          /\ \A operation \in Operations :
                Cardinality({i \in Deletes :
                    log[i].req.url = RestrictionUrl(page_id, operation)}) <= 1
          /\ (RemoveLoopDone /\ FailedDeletes # {}) =>
                LET first == CHOOSE i \in FailedDeletes : \A j \in FailedDeletes : i <= j
                IN StartsAt(result.warnings[1], 1,
                            "Failed to remove " \o DeletedOperation(first) \o " restrictions: ")
    /\ tool = "sync_user_directory" =>
          /\ \A k \in 1..3 :
                Cardinality({i \in 1..Len(log) :
                    StartsAt(log[i].req.url, 1, StepUrl(k))}) <= 1
          /\ \A i \in 1..Len(log) :
                log[i].resp.exc # "" =>
                    /\ pc = "done" /\ i = Len(log)
                    /\ result.success = FALSE
                    /\ Contains(log[i].resp.text, result.error)

C30_Witness ==
    /\ AddDone
    /\ PermissionPosts = {Len(log)}
    /\ log[Len(log)].resp.exc # ""
    /\ result.success = FALSE
    /\ Len(result.warnings) = 1


\* The page-creation requests of the call.
CreatePosts ==
    {i \in 1..Len(log) : log[i].req.method = "POST" /\ log[i].req.url = "/rest/api/content"}

\* C31: in create_page, when the search for parent_title returns no page, the
\* call has returned success = false with the message that names the parent
\* title and the space, and no POST to /rest/api/content is issued; when both
\* parent_id and parent_title are given the call has failed without any
\* request (with the both-forms error whenever the server is configured).
C31_ParentNotFoundNoCreate ==
    tool = "create_page" =>
        /\ (/\ Len(log) >= 1
            /\ log[1].req = TitleSearchRequest(params.space_key, params.parent_title)
            /\ NoMatchingPage(log[1].resp))
           => /\ pc = "done"
              /\ Len(log) = 1
              /\ CreatePosts = {}
              /\ result = [success |-> FALSE,
                           error |-> "Parent page with title '" \o params.parent_title
                                     \o "' not found in space '" \o params.space_key \o "'"]
        /\ (Truthy(params.parent_id) /\ Truthy(params.parent_title)) =>
              /\ pc = "done"
              /\ log = <<>>
              /\ result.success = FALSE
              /\ Configured =>
                    result.error
                        = "Cannot specify both parent_id and parent_title. Please use only one."
        /\ \A i \in CreatePosts : Truthy(params.parent_title) => Truthy(page_id)

C31_Witness ==
    /\ tool = "create_page"
    /\ pc = "done"
    /\ Len(log) = 1
    /\ log[1].req = TitleSearchRequest("DOCS", "Team Notes")
    /\ NoMatchingPage(log[1].resp)
    /\ result = ErrorResult("Parent page with title 'Team Notes' not found in space 'DOCS'")


\* C32: while the base URL or the API token is missing, the shared handle
\* stays unconstructed and every call of a tool on the shared client, the
\* first and each later one, has returned success = false with the
\* missing-configuration error without any request, also when its page or
\* parent parameters are invalid.
C32_MissingConfiguration ==
    ~Configured =>
        /\ http_client = NoClient
        /\ (tool \in ToolsOnSharedClient /\ pc # "idle") =>
              /\ pc = "done"
              /\ log = <<>>
              /\ result = [success |-> FALSE, error |-> "Error: " \o MissingEnvironment]

C32_Witness ==
    /\ ~Configured
    /\ "unconfigured" \in DOMAIN prev
    /\ prev.unconfigured = "get_restrictions"
    /\ tool = "add_restrictions"
    /\ pc = "done"
    /\ BothForms(params)
    /\ http_client = NoClient
    /\ result = ErrorResult("Error: Missing required environment variables: CONFLUENCE_URL, CONFLUENCE_API_TOKEN")


\* The login of the call was answered, whatever the status.
LoginAnswered ==
    /\ tool = "sync_user_directory"
    /\ Len(log) >= 1
    /\ log[1].resp.exc = ""

\* The re-authentication of the call was answered, whatever the status.
AuthenticateAnswered ==
    /\ tool = "sync_user_directory"
    /\ Len(log) >= 2
    /\ log[2].resp.exc = ""

\* C33: the login step of sync_user_directory fails only on a transport
\* exception: once the login was answered, with any status, the
\* re-authentication request is the next one issued; once the
\* re-authentication was answered, with any status, the token is the one
\* extracted from its body, and the call goes on to the sync trigger with
\* that token unless the body holds none.
C33_StatusNotInspected ==
    /\ (tool = "sync_user_directory" /\ Len(log) = 1 /\ pc = "done") =>
          /\ log[1].resp.exc # ""
          /\ result = ErrorResult("Login failed: " \o log[1].resp.text)
    /\ LoginAnswered =>
          \/ pc = "authenticate" /\ Len(log) = 1
          \/ Len(log) >= 2 /\ log[2].req.url = "/doauthenticate.action"
    /\ AuthenticateAnswered =>
          /\ atl_token = ExtractToken(log[2].resp.text)
          /\ IF ~Truthy(ExtractToken(log[2].resp.text))
             THEN pc = "done" /\ Len(log) = 2 /\ result = TokenNotFound
             ELSE \/ pc = "sync" /\ Len(log) = 2
                  \/ /\ Len(log) = 3
                     /\ log[3].req.url =
                            SyncUrl(SyncDirectoryId(params), ExtractToken(log[2].resp.text))

C33_Witness ==
    /\ SyncDone
    /\ Len(log) = 3
    /\ log[1].resp.status = 401
    /\ log[2].req.url = "/doauthenticate.action"
    /\ log[2].resp.status = 403
    /\ atl_token = "tokF"
    /\ log[3].req.url = SyncUrl(SyncDirectoryId(params), "tokF")
    /\ log[3].resp.status = 302
    /\ result.success = TRUE


\* The login or the password is empty in the call and in the configuration.
NoCredentials ==
    \/ ~Truthy(params.login) /\ env.CONFLUENCE_LOGIN = ""
    \/ ~Truthy(params.password) /\ env.CONFLUENCE_LOGIN_PASSWORD = ""

\* The directory ID is empty in the call and in the configuration.
NoDirectoryId == ~Truthy(params.directory_id) /\ env.CONFLUENCE_DIRECTORY_ID = ""

\* C34: a sync_user_directory call whose login, password or directory ID is
\* empty in the call and in the configuration opens no connection and issues
\* no request: it has returned the missing-credentials error, or else the
\* missing-directory-id error; a call that has all three opens its
\* connection and returns neither error.
C34_NothingWithoutCredentials ==
    (tool = "sync_user_directory" /\ pc # "idle") =>
        IF NoCredentials \/ NoDirectoryId
        THEN /\ pc = "done"
             /\ log = <<>>
             /\ session = NoSession
             /\ result = (IF NoCredentials THEN MissingCredentials ELSE MissingDirectoryId)
        ELSE /\ session.client = "session"
             /\ pc = "done" => (Len(log) >= 1 /\ result \notin {MissingCredentials, MissingDirectoryId})

C34_Witness ==
    /\ SyncDone
    /\ params.login = "root"
    /\ params.password = ""
    /\ env.CONFLUENCE_LOGIN_PASSWORD = "pw"
    /\ params.directory_id = None
    /\ env.CONFLUENCE_DIRECTORY_ID = ""
    /\ log = <<>>
    /\ session = NoSession
    /\ result = MissingDirectoryId


\* The requests of the call that fetch a page by its ID.
ReverseLookups ==
    {i \in 1..Len(log) :
        /\ log[i].req.method = "GET"
        /\ StartsAt(log[i].req.url, 1, "/rest/api/content/")
        /\ ~Contains("/restriction", log[i].req.url)}

\* The requests of the call that search a page by its title.
TitleSearches ==
    {i \in 1..Len(log) : log[i].req.method = "GET" /\ log[i].req.url = "/rest/api/content"}

\* The call of add_restrictions or remove_restrictions under way names its
\* page by title and space, on a configured server.
CalledByTitle ==
    /\ tool \in {"add_restrictions", "remove_restrictions"}
    /\ pc # "idle"
    /\ Truthy(params.page_title) /\ Truthy(params.space_key) /\ ~Truthy(params.page_id)
    /\ Configured

\* The call under way names its page by ID, on a configured server.
CalledById ==
    /\ tool \in {"add_restrictions", "remove_restrictions"}
    /\ pc # "idle"
    /\ Truthy(params.page_id) /\ ~Truthy(params.page_title)
    /\ Configured

\* C35: a call of add_restrictions or remove_restrictions with page_title and
\* space_key issues no GET /rest/api/content/{id}, works with the title it
\* was given, and builds its form from the classification of that title; a
\* call with page_id issues exactly one such GET, as its first request for
\* that ID, and no title search.
C35_OneWayToTheTitle ==
    /\ CalledByTitle =>
          /\ ReverseLookups = {}
          /\ page_title = params.page_title
          /\ \A i \in PermissionPosts :
                log[i].req.content =
                    FormBody(params.operation, is_private_or_shared(params.page_title),
                             user_account_ids, group_ids, page_id)
          /\ RemoveLoopDone => result.page_title = params.page_title
    /\ CalledById =>
          /\ TitleSearches = {}
          /\ IF pc = "get_title" THEN log = <<>>
             ELSE /\ ReverseLookups = {1}
                  /\ log[1].req = PageRequest(params.page_id)

C35_Witness ==
    /\ AddDone
    /\ CalledByTitle
    /\ params.page_title = "Private Roadmap"
    /\ PermissionPosts # {}
    /\ ReverseLookups = {}
    /\ result.success = TRUE


\* The places of an operation in removed_operations of the result.
RemovedAt(operation) ==
    {i \in 1..Len(result.removed_operations) : result.removed_operations[i] = operation}

\* The warnings of the result, none when the key is absent.
Warnings == IF "warnings" \in DOMAIN result THEN result.warnings ELSE <<>>

\* The places of the warnings about an operation.
WarnedAt(operation) ==
    {i \in 1..Len(Warnings) :
        StartsAt(Warnings[i], 1, "Failed to remove " \o operation \o " restrictions: ")}

\* C36: in every result of remove_restrictions that ran the removal loop,
\* each targeted operation is either once in removed_operations, when its
\* DELETE was answered with a success status or 404, or has exactly one
\* warning, when it was not, and nothing else is in either list; warnings is
\* present exactly when a DELETE failed; read comes before update in
\* removed_operations.
C36_EachOperationOnce ==
    RemoveLoopDone =>
        /\ \A operation \in TargetOperations :
              /\ Cardinality(RemovedAt(operation)) + Cardinality(WarnedAt(operation)) = 1
              /\ \E i \in Deletes :
                    /\ DeletedOperation(i) = operation
                    /\ (RemovedAt(operation) # {}) <=> ~DeleteFailed(log[i].resp)
        /\ Len(result.removed_operations) + Len(Warnings) = Cardinality(TargetOperations)
        /\ ("warnings" \in DOMAIN result) <=> (FailedDeletes # {})
        /\ "warnings" \in DOMAIN result => result.warnings # <<>>
        /\ \A i, j \in 1..Len(result.removed_operations) :
              i < j => (result.removed_operations[i] = "read"
                        /\ result.removed_operations[j] = "update")

C36_Witness ==
    /\ RemoveLoopDone
    /\ TargetOperations = {"read", "update"}
    /\ \E i, j \in Deletes :
          /\ DeletedOperation(i) = "read" /\ log[i].resp.exc # ""
          /\ DeletedOperation(j) = "update" /\ log[j].resp.status = 404
    /\ result.removed_operations = <<"update">>
    /\ Len(Warnings) = 1
    /\ WarnedAt("read") = {1}

=============================================================================
